---- MODULE Spec2Model ----
(***************************************************************************)
(* Phobos Local Resource Scheduler: device worker threads                  *)
(* (src/src/lrs/lrs_device.c, lrs_device.h) together with the parts of the *)
(* scheduler they talk to.                                                 *)
(*                                                                         *)
(* Spec / LiveSpec : the device workers, their sync batching, the library  *)
(*                   and the DSS rows they touch.                          *)
(* SpecLock        : a start/stop cycle of the daemon over the DSS lock    *)
(*                   table.                                                *)
(* SpecSched       : the fair_share dispatch counters and the shutdown of  *)
(*                   the scheduler queues.                                 *)
(* SpecRetry       : a read retried on other media after mount failures.   *)
(* SpecRelease     : a release request spread over several devices.        *)
(* SpecStats       : the statistics of a medium written to the DSS after a *)
(*                   sync and after a format.                              *)
(* SpecQueue       : the thread-safe queue of io.c.                        *)
(* SpecWire        : the framing of TLC requests and responses.            *)
(* SpecAlloc       : a read or write allocation spread over several        *)
(*                   devices, at the granularity of the request mutex.     *)
(* SpecSync /      : the pending releases of one device and their flush,   *)
(* LiveSync          at the granularity of the device mutex.               *)
(* SpecFormat      : format requests and allocations served through the    *)
(*                   queues of the scheduler.                              *)
(* SpecCancel      : the head of the worker loop over a request that may   *)
(*                   already carry an error.                               *)
(* SpecScsiRetry   : PHO_RETRY_LOOP around a SCSI call.                    *)
(* SpecWakeup      : the wake-up date of a waiting worker.                 *)
(* SpecHandle      : the device list of the handle (load, add, del).       *)
(***************************************************************************)
EXTENDS Integers, Sequences, FiniteSets, TLC

(* ---------------------------------------------------------------------- *)
(* Bounds and program constants                                           *)
(* ---------------------------------------------------------------------- *)

\* number of client allocation requests of one run
NumReq == 2

\* handle->sync_nb_req: number of pending releases that triggers a sync
sync_nb_req == 2

\* number of calls (library, file system, DSS, client I/O) that fail in one run
MaxFaults == 1

\* number of calls that fail in one run of the retry scenario
MaxRetryFaults == 2

\* errno values used by the device thread
EIO == 5
EBUSY == 16
EINVAL == 22
ENOSPC == 28

Devices == {"d1", "d2", "d3"}
Media == {"m1", "m2", "m3"}
NoMedium == "none"
ReqIds == 1..NumReq
NoReq == 0

\* enum dev_op_status
OpStatus == {"EMPTY", "LOADED", "MOUNTED", "FAILED"}

VARIABLES
    dev,                \* struct lrs_dev, one per device
    reqc,               \* struct req_container and its sub_request, per request
    sched_retry_queue,  \* sched->retry_queue (sub-requests, by request id)
    sched_req_queue,    \* sched->incoming (requests pushed back by a device)
    response_queue,     \* responses queued, counted per request and kind
    lib,                \* library: where each medium is (a drive or "slot")
    dss,                \* DSS rows: locks and adm_status of media and devices
    running,            \* the daemon's global running flag
    d2d_ok,             \* the library allows drive to drive movements
    hist,               \* history: releases covered by a sync / by an umount
    faults,             \* number of calls that have failed so far
    locks,              \* SpecLock: rows of the DSS lock table
    lk,                 \* SpecLock: daemon of the start/stop cycle
    fs,                 \* SpecSched: fair_share scheduler
    rel,                \* SpecRelease: a release request spread over devices
    med,                \* SpecStats: a medium, in memory and as its DSS row
    tsq,                \* SpecQueue: a struct tsqueue and the threads using it
    wire,               \* SpecWire: TLC messages being packed and unpacked
    al,                 \* SpecAlloc: an allocation request spread over devices
    fl,                 \* SpecSync: the pending releases of one device
    rt,                 \* SpecScsiRetry: one PHO_RETRY_LOOP around a SCSI call
    wk,                 \* SpecWakeup: one call of compute_wakeup_date
    hd                  \* SpecHandle: the device list of a lrs_dev_hdl

devvars == <<dev, reqc, sched_retry_queue, sched_req_queue, response_queue,
             lib, dss, running, d2d_ok, hist, faults>>
lockvars == <<locks, lk>>
schedvars == <<fs>>
relvars == <<rel>>
statvars == <<med>>
queuevars == <<tsq>>
wirevars == <<wire>>
allocvars == <<al>>
flushvars == <<fl>>
\* the variables of the parts added after the wire framing
latevars == <<rt, wk, hd>>
morevars == <<allocvars, flushvars, latevars>>
oldauxvars == <<relvars, statvars, queuevars, wirevars>>
auxvars == <<oldauxvars, morevars>>
vars == <<dev, reqc, sched_retry_queue, sched_req_queue, response_queue,
          lib, dss, running, d2d_ok, hist, faults, locks, lk, fs, rel,
          med, tsq, wire, al, fl, rt, wk, hd>>

(* ---------------------------------------------------------------------- *)
(* The state the device thread code works on, as one record               *)
(* ---------------------------------------------------------------------- *)

\* the current state, as handed to the operators below
cur ==
    [dev |-> dev, reqc |-> reqc, lib |-> lib, dss |-> dss, hist |-> hist,
     faults |-> faults, retry |-> sched_retry_queue,
     incoming |-> sched_req_queue, resp |-> response_queue]

\* the next state is s
Becomes(s) ==
    /\ dev' = s.dev
    /\ reqc' = s.reqc
    /\ sched_retry_queue' = s.retry
    /\ sched_req_queue' = s.incoming
    /\ response_queue' = s.resp
    /\ lib' = s.lib
    /\ dss' = s.dss
    /\ hist' = s.hist
    /\ faults' = s.faults

\* struct lrs_dev after lrs_dev_init_from_info and the scheduler's scan of an
\* empty drive
InitDevRec ==
    [ld_op_status |-> "EMPTY", ld_dss_media_info |-> NoMedium,
     ld_mnt_path |-> FALSE, ld_sub_request |-> NoReq,
     ld_ongoing_io |-> FALSE, ld_needs_sync |-> FALSE,
     ld_last_client_rc |-> 0, tosync_array |-> <<>>,
     state |-> "RUNNING", status |-> 0, pc |-> "loop"]

\* a request container not received yet; for a format request med_id is
\* req->format->med_id and alloc_medium is params.format.medium_to_format,
\* which shares the storage of params.rwalloc
InitReqRec ==
    [dev |-> "none", status |-> "TODO", kind |-> "none", alt |-> FALSE,
     rc |-> 0, alloc_medium |-> NoMedium, failure_on_medium |-> FALSE,
     loc |-> "new", rel_status |-> "NONE", rel_rc |-> 0, client_rc |-> 0,
     med_id |-> NoMedium]

InitResp ==
    [alloc |-> 0, err |-> 0, release |-> 0, relerr |-> 0, format |-> 0]

SeqToSet(q) == {q[i] : i \in 1..Len(q)}

\* one more failed call when ok is false
failed_calls(ok) == IF ok THEN 0 ELSE 1

\* n more calls have failed
charge(s, n) == [s EXCEPT !.faults = @ + n]

\* F(v), v being evaluated once
With(v, F(_)) == CHOOSE y \in {F(x) : x \in {v}} : TRUE

\* n more calls may fail
can_fail(s, n) == s.faults + n <= s.hist.max_faults

\* the changes of operational status a device may make
AllowedEdges ==
    {<<"EMPTY", "LOADED">>, <<"LOADED", "MOUNTED">>, <<"MOUNTED", "LOADED">>,
     <<"LOADED", "EMPTY">>} \cup {<<st, "FAILED">> : st \in OpStatus}

\* dev->ld_op_status = st; the history remembers whether some assignment
\* changed the status along something else than an allowed edge
set_op_status(w, d, st) == With(w, LAMBDA s :
    LET old == s.dev[d].ld_op_status
    IN  [s EXCEPT !.dev[d].ld_op_status = st,
                  !.hist.off_edge =
                      @ \/ (old # st /\ <<old, st>> \notin AllowedEdges)])

(* ---------------------------------------------------------------------- *)
(* Thread state helpers (lrs_thread.h) and device readiness               *)
(* ---------------------------------------------------------------------- *)

thread_is_running(dv) == dv.state = "RUNNING"
thread_is_stopping(dv) == dv.state = "STOPPING"
thread_is_stopped(dv) == dv.state = "STOPPED"

dev_is_release_ready(dv) == ~thread_is_stopped(dv)

dev_is_sched_ready_until_stopped(s, d) ==
    /\ ~thread_is_stopped(s.dev[d])
    /\ ~s.dev[d].ld_ongoing_io
    /\ ~s.dev[d].ld_needs_sync
    /\ s.dev[d].ld_sub_request = NoReq
    /\ s.dev[d].ld_op_status # "FAILED"
    /\ ~s.dss.dfailed[d]

dev_is_sched_ready(s, d) ==
    /\ thread_is_running(s.dev[d])
    /\ ~s.dev[d].ld_ongoing_io
    /\ ~s.dev[d].ld_needs_sync
    /\ s.dev[d].ld_sub_request = NoReq
    /\ s.dev[d].ld_op_status # "FAILED"
    /\ ~s.dss.dfailed[d]

(* ---------------------------------------------------------------------- *)
(* Responses                                                              *)
(* ---------------------------------------------------------------------- *)

\* tsqueue_push(response_queue, ...) of a response of kind k for request r
queue_response(s, r, k) == [s EXCEPT !.resp[r][k] = @ + 1]

(* ---------------------------------------------------------------------- *)
(* Pending releases of a device                                           *)
(* ---------------------------------------------------------------------- *)

\* the status clean_tosync_array gives an entry
tosync_entry_status(rc) == IF rc = 0 THEN "DONE" ELSE "ERROR"

release_rc_never_recorded(old, rc) == old

\* the release error recorded on the parent: the first one wins
release_rc_after(old, rc) == IF rc # 0 /\ old = 0 THEN rc ELSE old

\* clean_tosync_array, for one entry: the request has one medium to sync, so it
\* is ended; it is acknowledged when it has no recorded error, and the first
\* error is answered by an error response
clean_tosync_entry(w, r, rc) == With(w, LAMBDA s :
    LET first_error == rc # 0 /\ s.reqc[r].rel_rc = 0
        new_rc == release_rc_after(s.reqc[r].rel_rc, rc)
    IN  [s EXCEPT
            !.reqc[r].rel_status = tosync_entry_status(rc),
            !.reqc[r].rel_rc = new_rc,
            !.reqc[r].loc = "end",
            !.resp[r].relerr = @ + (IF first_error THEN 1 ELSE 0),
            !.resp[r].release = @ + (IF new_rc = 0 THEN 1 ELSE 0)])

RECURSIVE clean_tosync_entries(_, _, _)
\* the loop of clean_tosync_array over the entries arr, last entry first
clean_tosync_entries(w, arr, rc) == With(w, LAMBDA s :
    IF arr = <<>> THEN s
    ELSE clean_tosync_entries(clean_tosync_entry(s, arr[Len(arr)], rc),
                              SubSeq(arr, 1, Len(arr) - 1), rc))

\* clean_tosync_array: every pending release of the device is resolved with rc
clean_tosync_array(w, d, rc) == With(w, LAMBDA s :
    [clean_tosync_entries(s, s.dev[d].tosync_array, rc) EXCEPT
        !.dev[d].tosync_array = <<>>,
        !.dev[d].ld_needs_sync = FALSE])

\* push_new_sync_to_device
push_new_sync_to_device(w, d, r) == With(w, LAMBDA s :
    [s EXCEPT
        !.dev[d].ld_last_client_rc =
            IF s.reqc[r].client_rc # 0 THEN s.reqc[r].client_rc ELSE @,
        !.dev[d].tosync_array = Append(@, r),
        !.reqc[r].rel_status = "TODO",
        !.reqc[r].loc = "sync"])

RECURSIVE cancel_tosync_entries(_, _)
\* the loop of remove_canceled_sync over the entries arr
cancel_tosync_entries(w, arr) == With(w, LAMBDA s :
    IF arr = <<>> THEN s
    ELSE LET r == Head(arr)
         IN  cancel_tosync_entries(
                 IF s.reqc[r].rel_rc # 0
                 THEN [s EXCEPT !.reqc[r].rel_status = "CANCEL",
                                !.reqc[r].loc = "end"]
                 ELSE s,
                 Tail(arr)))

\* remove_canceled_sync: drop the entries whose release already has an error
remove_canceled_sync(w, d) == With(w, LAMBDA s :
    LET arr == s.dev[d].tosync_array
    IN  [cancel_tosync_entries(s, arr) EXCEPT
            !.dev[d].tosync_array =
                SelectSeq(arr, LAMBDA r : s.reqc[r].rel_rc = 0)])

\* check_needs_sync; past: oldest_tosync + sync_time is past, or the written
\* size reached sync_wsize_kb
check_needs_sync(w, d, past) == With(w, LAMBDA s :
    LET n == Len(s.dev[d].tosync_array)
    IN  [s EXCEPT !.dev[d].ld_needs_sync =
            \/ (n > 0 /\ (n >= sync_nb_req \/ past))
            \/ (~running /\ n > 0)
            \/ (thread_is_stopping(s.dev[d]) /\ n > 0)
            \/ s.dev[d].ld_last_client_rc # 0])

(* ---------------------------------------------------------------------- *)
(* Medium and device operations                                           *)
(* ---------------------------------------------------------------------- *)

\* outcomes of the DSS calls of one step: all succeed, the update of a row
\* fails, or the unlock fails
DssOutcomes == {"ok", "set_fail", "unlock_fail"}

\* dss_medium_release
dss_medium_release(s, m, ok) ==
    IF ok THEN [s EXCEPT !.dss.mlock[m] = FALSE] ELSE s

\* note in the history that a worker decided to mark resource x (a medium or a
\* device) FAILED, and whether its write of the status to the DSS succeeded
fail_decided(s, x, written) ==
    [s EXCEPT !.hist.fail_decided = @ \cup {x},
              !.hist.quarantined = IF written THEN @ \ {x} ELSE @ \cup {x}]

lock_released_whatever_the_update(dssv) == dssv # "unlock_fail"

\* fail_release_free_medium releases the lock only when the update succeeded
lock_released_after_failed_update(dssv) == dssv = "ok"

\* fail_release_free_medium; of_dev: the medium is dev->ld_dss_media_info and
\* is freed
fail_release_free_medium(w, d, m, dssv, of_dev) == With(w, LAMBDA s :
    LET s0 == fail_decided(s, m, dssv # "set_fail")
        s1 == IF dssv # "set_fail" THEN [s0 EXCEPT !.dss.mfailed[m] = TRUE]
              ELSE s0
        s2 == dss_medium_release(s1, m, lock_released_after_failed_update(dssv))
    IN  IF of_dev THEN [s2 EXCEPT !.dev[d].ld_dss_media_info = NoMedium]
        ELSE s2)

op_status_after_umount_skips_loaded(rc) == IF rc = 0 THEN "EMPTY" ELSE "FAILED"

\* the operational status dev_umount leaves
op_status_after_umount(rc) == IF rc = 0 THEN "LOADED" ELSE "FAILED"

\* dev_umount; ok: ldm_fs_umount succeeds
dev_umount(w, d, ok) == With(w, LAMBDA s :
    LET rc == IF ok THEN 0 ELSE -EIO
        ids == SeqToSet(s.dev[d].tosync_array)
        s1 == clean_tosync_array(s, d, rc)
        s2 == [set_op_status(s1, d, op_status_after_umount(rc)) EXCEPT
                 !.dev[d].ld_mnt_path = IF rc = 0 THEN FALSE ELSE @,
                 !.hist.umounted = IF rc = 0 THEN @ \cup ids ELSE @]
    IN  [s |-> s2, rc |-> rc])

UnloadOutcomes == {"ok", "open_fail", "move_fail", "close_fail", "unlock_fail"}

\* dev_unload
dev_unload(w, d, out) == With(w, LAMBDA s :
    LET m == s.dev[d].ld_dss_media_info
        moved == [set_op_status(s, d, "EMPTY") EXCEPT
                    !.dev[d].ld_dss_media_info = NoMedium,
                    !.lib[m] = "slot"]
        failed(t) == set_op_status(t, d, "FAILED")
    IN  CASE out = "open_fail" -> [s |-> failed(s), rc |-> -EIO]
          [] out = "move_fail" -> [s |-> failed(s), rc |-> -EIO]
          [] out = "close_fail" -> [s |-> failed(moved), rc |-> -EIO]
          [] out = "unlock_fail" -> [s |-> moved, rc |-> -EIO]
          [] OTHER -> [s |-> dss_medium_release(moved, m, TRUE), rc |-> 0])

LoadOutcomes == {"ok", "open_fail", "lookup_fail", "move_fail"}

\* the medium dev_load registers as dev->ld_dss_media_info after the move
loaded_medium_after_move(m) == m

\* dev_load of medium m; out: what the library answers; close_ok:
\* ldm_lib_close succeeds; release_on_dev_failure: the caller's
\* release_medium_on_dev_only_failure
dev_load(w, d, m, out, close_ok, dssv, release_on_dev_failure) == With(w, LAMBDA s :
    LET drive_to_drive == s.lib[m] \in Devices /\ s.lib[m] # d
        refused == drive_to_drive /\ ~d2d_ok
        failed(t) == set_op_status(t, d, "FAILED")
        \* out_close: ldm_lib_close
        closed(r) ==
            IF close_ok THEN r
            ELSE [r EXCEPT !.s = failed(r.s), !.fod = TRUE,
                           !.rc = IF r.rc # 0 THEN r.rc ELSE -EIO]
    IN  CASE out = "open_fail" ->
               [s |-> IF release_on_dev_failure
                      THEN dss_medium_release(failed(s), m, dssv = "ok")
                      ELSE failed(s),
                rc |-> -EIO, fod |-> TRUE, fom |-> FALSE, can_retry |-> FALSE]
          [] out = "lookup_fail" ->
               closed([s |-> fail_release_free_medium(s, d, m, dssv, FALSE),
                       rc |-> -EIO, fod |-> FALSE, fom |-> TRUE,
                       can_retry |-> FALSE])
          [] out \in {"ok", "move_fail"} /\ refused ->
               closed([s |-> s, rc |-> -EBUSY, fod |-> FALSE, fom |-> FALSE,
                       can_retry |-> TRUE])
          [] out = "move_fail" /\ ~refused ->
               closed([s |-> fail_release_free_medium(failed(s), d, m, dssv,
                                                      FALSE),
                       rc |-> -EIO, fod |-> TRUE, fom |-> TRUE,
                       can_retry |-> FALSE])
          [] OTHER ->
               closed([s |-> [set_op_status(s, d, "LOADED") EXCEPT
                                !.dev[d].ld_dss_media_info =
                                    loaded_medium_after_move(m),
                                !.lib[m] = d],
                       rc |-> 0, fod |-> FALSE, fom |-> FALSE,
                       can_retry |-> FALSE]))

\* dev_mount; ok: the medium is already mounted or ldm_fs_mount succeeds
dev_mount(w, d, ok) == With(w, LAMBDA s :
    IF ok
    THEN [s |-> [set_op_status(s, d, "MOUNTED") EXCEPT
                          !.dev[d].ld_mnt_path = TRUE],
          rc |-> 0]
    ELSE [s |-> s, rc |-> -EIO])

(* ---------------------------------------------------------------------- *)
(* Read/write allocation sub-requests                                     *)
(* ---------------------------------------------------------------------- *)

rwalloc_requeued_whatever_the_media(rq) == rq.kind \in {"read", "write"}

rwalloc_requeued_for_reads_only(rq) ==
    rq.kind = "read" /\ (~rq.failure_on_medium \/ rq.alt)

rwalloc_requeued_unless_medium_failed(rq) ==
    \/ rq.kind = "write"
    \/ ~rq.failure_on_medium

\* rwalloc_can_be_requeued
rwalloc_can_be_requeued(rq) ==
    \/ rq.kind = "write"
    \/ ~rq.failure_on_medium
    \/ rq.alt

\* sched_req_free of the container of r, with its sub-request: nothing of it
\* is left but its kind
req_ended(w, r) == With(w, LAMBDA s :
    [s EXCEPT !.reqc[r] = [InitReqRec EXCEPT !.kind = s.reqc[r].kind,
                                             !.med_id = s.reqc[r].med_id,
                                             !.loc = "end"]])

\* handle_rwalloc_sub_request_result for the sub-request r of device d
handle_rwalloc_sub_request_result(w, d, r, sub_request_rc) == With(w, LAMBDA s :
    LET rq == s.reqc[r]
    IN  IF rq.rc # 0
        THEN \* locked_cancel_rwalloc_on_error
             [s |-> req_ended([s EXCEPT !.reqc[r].status = "CANCEL",
                                        !.reqc[r].alloc_medium = NoMedium], r),
              requeued |-> FALSE, canceled |-> TRUE]
        ELSE IF sub_request_rc = 0
        THEN \* the only sub-request is DONE: the response is pushed
             [s |-> queue_response(
                        [s EXCEPT !.reqc[r].status = "DONE",
                                  !.reqc[r].alloc_medium = NoMedium,
                                  !.reqc[r].loc = "io",
                                  !.reqc[r].dev = d], r, "alloc"),
              requeued |-> FALSE, canceled |-> FALSE]
        ELSE IF rwalloc_can_be_requeued(rq)
        THEN [s |-> [s EXCEPT
                       !.reqc[r].alloc_medium =
                           IF rq.failure_on_medium THEN NoMedium ELSE @,
                       !.reqc[r].loc = "retry",
                       !.retry = Append(@, r)],
              requeued |-> TRUE, canceled |-> FALSE]
        ELSE [s |-> req_ended(queue_response(
                        [s EXCEPT !.reqc[r].rc = sub_request_rc,
                                  !.reqc[r].status = "ERROR",
                                  !.reqc[r].alloc_medium = NoMedium], r, "err"),
                        r),
              requeued |-> FALSE, canceled |-> FALSE])

\* where the thread goes when a handler or dev_sync returns rc
pc_after(dv, rc) ==
    IF rc # 0 \/ thread_is_stopped(dv) THEN "end" ELSE "loop"

\* the end of dev_handle_read_write, from alloc_result on; the thread ends
\* when the failure is on the device
rw_result(w, d, rc, failure_on_device, io_ended) == With(w, LAMBDA s :
    LET r == s.dev[d].ld_sub_request
        res == handle_rwalloc_sub_request_result(s, d, r, rc)
        ongoing == ~(io_ended \/ res.canceled) /\ ~res.requeued
        ret == IF failure_on_device THEN rc ELSE 0
    IN  [res.s EXCEPT
            !.dev[d].ld_ongoing_io = IF ongoing THEN TRUE ELSE @,
            !.dev[d].ld_sub_request = NoReq,
            !.dev[d].status = IF ret # 0 THEN ret ELSE @,
            !.dev[d].pc = pc_after(s.dev[d], ret)])

\* dev_empty; um_ok: ldm_fs_umount succeeds, out: what dev_unload meets
dev_empty(w, d, um_ok, out) == With(w, LAMBDA s :
    LET st == s.dev[d].ld_op_status
        um == IF st = "MOUNTED" THEN dev_umount(s, d, um_ok)
              ELSE [s |-> s, rc |-> 0]
    IN  IF st = "EMPTY" THEN [s |-> s, rc |-> 0]
        ELSE IF um.rc # 0 THEN um
        ELSE IF um.s.dev[d].ld_op_status = "LOADED"
        THEN dev_unload(um.s, d, out)
        ELSE [s |-> s, rc |-> -EINVAL])

\* what dev_mount and the read-only check can meet: the mount succeeds or
\* not, a write finds the medium writable or not, and the DSS calls made on
\* a failure
MountChoices(kind) ==
    {c \in [ok : BOOLEAN, dssv : DssOutcomes, writable : BOOLEAN] :
        /\ (~c.ok \/ kind # "write") => c.writable
        /\ (c.ok /\ c.writable) => c.dssv = "ok"}

\* the number of failed calls of a choice
mount_faults(c) ==
    failed_calls(c.ok /\ c.writable) + failed_calls(c.dssv = "ok")

\* dev_handle_read_write from the mount label on: dev_mount, the read-only
\* check of a write, and alloc_result
rw_mount_with(w, d, c) == With(w, LAMBDA s :
    LET r == s.dev[d].ld_sub_request
        m == s.dev[d].ld_dss_media_info
        mt == dev_mount(s, d, c.ok)
    IN  IF mt.rc # 0
        THEN rw_result(
               fail_release_free_medium(
                 [set_op_status(mt.s, d, "FAILED") EXCEPT
                    !.hist.mount_failed[r] = @ + 1,
                    !.reqc[r].failure_on_medium = TRUE],
                 d, m, c.dssv, TRUE),
               d, mt.rc, TRUE, TRUE)
        ELSE IF s.reqc[r].kind = "write" /\ ~c.writable
        THEN IF c.dssv = "set_fail"
             THEN \* the thread ends, its sub-request still pending
                  [mt.s EXCEPT !.reqc[r].failure_on_medium = TRUE,
                               !.dev[d].status = -EIO,
                               !.dev[d].pc = "end"]
             ELSE rw_result(
                    [mt.s EXCEPT !.reqc[r].failure_on_medium = TRUE,
                                 !.dss.mfull[m] = TRUE],
                    d, -ENOSPC, FALSE, TRUE)
        ELSE rw_result(mt.s, d, 0, FALSE, FALSE))

\* the states the mount part of dev_handle_read_write can leave
rw_mount(w, d) == With(w, LAMBDA s :
    {rw_mount_with(charge(s, mount_faults(c)), d, c) :
        c \in {x \in MountChoices(s.reqc[s.dev[d].ld_sub_request].kind) :
                  can_fail(s, mount_faults(x))}})

\* what dev_load can meet: the answer of the library, ldm_lib_close, and the
\* DSS calls made when the medium is set to failed
LoadChoices ==
    {c \in [dssv : DssOutcomes, out : LoadOutcomes, close_ok : BOOLEAN] :
        /\ c.out = "open_fail" => c.close_ok
        /\ c.out \in {"ok", "open_fail"} => c.dssv = "ok"}

\* the number of failed calls of a choice
load_faults(c) ==
    failed_calls(c.out = "ok") + failed_calls(c.close_ok)
        + failed_calls(c.dssv = "ok")

\* dev_handle_read_write from the call of dev_load on
rw_load_with(w, d, c) == With(w, LAMBDA s :
    LET dv == s.dev[d]
        r == dv.ld_sub_request
        m == s.reqc[r].alloc_medium
        ld == dev_load(s, d, m, c.out, c.close_ok, c.dssv, FALSE)
        s1 == [ld.s EXCEPT
                 !.reqc[r].failure_on_medium = ld.fom,
                 !.reqc[r].alloc_medium =
                     IF ld.rc = 0 \/ ld.fom THEN NoMedium ELSE @]
    IN  IF ld.rc = -EBUSY /\ ld.can_retry
        THEN \* try again later: the sub-request stays
             {[ld.s EXCEPT !.reqc[r].failure_on_medium = ld.fom,
                           !.dev[d].pc = pc_after(dv, 0)]}
        ELSE IF ld.rc # 0
        THEN {rw_result(s1, d, ld.rc, ld.fod, TRUE)}
        ELSE rw_mount(s1, d))

\* the states dev_handle_read_write can leave once the device is empty
rw_load(w, d) == With(w, LAMBDA s :
    UNION {rw_load_with(charge(s, load_faults(c)), d, c) :
             c \in {x \in LoadChoices : can_fail(s, load_faults(x))}})

\* what dev_empty can meet: ldm_fs_umount of a mounted medium, then dev_unload
EmptyChoices(st) ==
    {c \in [out : UnloadOutcomes, um_ok : BOOLEAN] :
        /\ st # "MOUNTED" => c.um_ok
        /\ (st \notin {"MOUNTED", "LOADED"} \/ ~c.um_ok) => c.out = "ok"}

\* the number of failed calls of a choice
empty_faults(c) == failed_calls(c.out = "ok") + failed_calls(c.um_ok)

\* dev_handle_read_write from the call of dev_empty on
rw_empty_with(w, d, c) == With(w, LAMBDA s :
    LET e == dev_empty(s, d, c.um_ok, c.out)
    IN  IF e.rc # 0 THEN {rw_result(e.s, d, e.rc, TRUE, TRUE)}
        ELSE rw_load(e.s, d))

\* dev_handle_read_write: the states it can leave
dev_handle_read_write(w, d) == With(w, LAMBDA s :
    LET dv == s.dev[d]
        r == dv.ld_sub_request
    IN  IF s.reqc[r].rc # 0
        THEN \* cancel_subrequest_on_error
             {[req_ended([s EXCEPT !.reqc[r].status = "CANCEL",
                                   !.reqc[r].alloc_medium = NoMedium], r)
                 EXCEPT !.dev[d].ld_sub_request = NoReq,
                        !.dev[d].pc = pc_after(dv, 0)]}
        ELSE IF s.reqc[r].alloc_medium # NoMedium
        THEN UNION {rw_empty_with(charge(s, empty_faults(c)), d, c) :
                      c \in {x \in EmptyChoices(dv.ld_op_status) :
                                can_fail(s, empty_faults(x))}}
        ELSE IF dv.ld_op_status = "MOUNTED"
        THEN {rw_result(s, d, 0, FALSE, FALSE)}
        ELSE IF dv.ld_op_status = "LOADED"
        THEN rw_mount(s, d)
        ELSE {rw_result([s EXCEPT !.reqc[r].failure_on_medium = TRUE],
                        d, -EINVAL, FALSE, TRUE)})

(* ---------------------------------------------------------------------- *)
(* Format sub-requests                                                    *)
(* ---------------------------------------------------------------------- *)

\* the label out of dev_handle_format: the sub-request leaves the device and
\* the handler returns rc
fmt_out(w, d, rc) == With(w, LAMBDA s :
    [s EXCEPT !.dev[d].ld_sub_request = NoReq,
              !.dev[d].status = IF rc # 0 THEN rc ELSE @,
              !.dev[d].pc = pc_after(s.dev[d], rc)])

\* the label out_response of dev_handle_format: an error response when rc is
\* not 0, the format response otherwise
fmt_out_response(w, d, r, rc) == With(w, LAMBDA s :
    fmt_out(req_ended(queue_response(s, r, IF rc # 0 THEN "err" ELSE "format"),
                      r),
            d, rc))

\* what dev_format can meet: ldm_fs_format and the update of the medium row
FormatChoices ==
    {c \in [fmt_ok : BOOLEAN, dss_ok : BOOLEAN] : ~c.fmt_ok => c.dss_ok}

\* the number of failed calls of a choice
format_faults(c) == failed_calls(c.fmt_ok) + failed_calls(c.dss_ok)

\* dev_handle_format from the call of dev_format on
fmt_format(w, d) == With(w, LAMBDA s :
    LET r == s.dev[d].ld_sub_request
    IN  {fmt_out_response(charge(s, format_faults(c)), d, r,
                          IF c.fmt_ok /\ c.dss_ok THEN 0 ELSE -EIO) :
            c \in {x \in FormatChoices : can_fail(s, format_faults(x))}})

\* dev_handle_format from the call of dev_load on
fmt_load_with(w, d, c) == With(w, LAMBDA s :
    LET dv == s.dev[d]
        r == dv.ld_sub_request
        m == s.reqc[r].alloc_medium
        ld == dev_load(s, d, m, c.out, c.close_ok, c.dssv, TRUE)
        s1 == [ld.s EXCEPT !.reqc[r].failure_on_medium = ld.fom,
                           !.reqc[r].alloc_medium = NoMedium]
    IN  IF ld.rc = -EBUSY /\ ld.can_retry
        THEN \* try again later: the sub-request stays
             {[ld.s EXCEPT !.reqc[r].failure_on_medium = ld.fom,
                           !.dev[d].pc = pc_after(dv, 0)]}
        ELSE IF ld.rc # 0
        THEN IF ld.fod
             THEN {fmt_out_response(s1, d, r, ld.rc)}
             ELSE \* error on the medium only: rc becomes the code of
                  \* queue_error_response
                  {fmt_out(req_ended(queue_response(s1, r, "err"), r), d, 0)}
        ELSE fmt_format(s1, d))

\* the states dev_handle_format can leave once the device is empty
fmt_load(w, d) == With(w, LAMBDA s :
    UNION {fmt_load_with(charge(s, load_faults(c)), d, c) :
             c \in {x \in LoadChoices : can_fail(s, load_faults(x))}})

\* dev_handle_format from the call of dev_empty on: when the drive cannot be
\* emptied the request goes back to the scheduler, still holding its medium
fmt_empty_with(w, d, c) == With(w, LAMBDA s :
    LET r == s.dev[d].ld_sub_request
        e == dev_empty(s, d, c.um_ok, c.out)
    IN  IF e.rc # 0
        THEN {fmt_out([e.s EXCEPT !.incoming = Append(@, r),
                                  !.reqc[r].loc = "incoming"], d, e.rc)}
        ELSE fmt_load(e.s, d))

\* dev_handle_format: the states it can leave
dev_handle_format(w, d) == With(w, LAMBDA s :
    LET dv == s.dev[d]
        r == dv.ld_sub_request
    IN  IF dv.ld_op_status = "LOADED"
           /\ dv.ld_dss_media_info = s.reqc[r].med_id
        THEN fmt_format(s, d)
        ELSE UNION {fmt_empty_with(charge(s, empty_faults(c)), d, c) :
                      c \in {x \in EmptyChoices(dv.ld_op_status) :
                                can_fail(s, empty_faults(x))}})

(* ---------------------------------------------------------------------- *)
(* The device thread: main loop, sync, end                                *)
(* ---------------------------------------------------------------------- *)

stop_without_waiting_for_io(dv) ==
    /\ thread_is_stopping(dv)
    /\ dv.ld_sub_request = NoReq
    /\ Len(dv.tosync_array) = 0

\* lrs_dev_thread: the test that switches the thread to stopped
stop_condition(dv) ==
    /\ thread_is_stopping(dv)
    /\ ~dv.ld_ongoing_io
    /\ dv.ld_sub_request = NoReq
    /\ Len(dv.tosync_array) = 0

\* cancel_subrequest_on_error at the head of the loop
loop_cancel(w, d) == With(w, LAMBDA s :
    LET r == s.dev[d].ld_sub_request
    IN  IF r # NoReq /\ s.reqc[r].kind # "format" /\ s.reqc[r].rc # 0
        THEN [req_ended([s EXCEPT !.reqc[r].status = "CANCEL",
                                  !.reqc[r].alloc_medium = NoMedium], r)
                EXCEPT !.dev[d].ld_sub_request = NoReq]
        ELSE s)

\* dev_sync: medium_sync, lrs_dev_media_update, clean_tosync_array;
\* sync_ok: the medium sync succeeds, dss_ok: the DSS update succeeds
dev_sync(w, d, sync_ok, dss_ok) == With(w, LAMBDA s :
    LET dv == s.dev[d]
        m == dv.ld_dss_media_info
        ids == SeqToSet(dv.tosync_array)
        called == dv.ld_last_client_rc = 0
        rc == IF called THEN (IF sync_ok THEN 0 ELSE -EIO)
              ELSE dv.ld_last_client_rc
        rc2 == IF dss_ok THEN 0 ELSE -EIO
        rct == IF rc # 0 THEN rc ELSE rc2
        s0 == IF rc # 0 /\ m # NoMedium THEN fail_decided(s, m, dss_ok) ELSE s
        s1 == [s0 EXCEPT
                 !.dss.mfailed = IF rc # 0 /\ dss_ok /\ m # NoMedium
                                 THEN [@ EXCEPT ![m] = TRUE] ELSE @,
                 !.dev[d].ld_last_client_rc = 0,
                 !.hist.synced = IF called /\ sync_ok THEN @ \cup ids ELSE @]
    IN  [s |-> clean_tosync_array(s1, d, rct), rc |-> rct])

\* lrs_dev_thread after the sync: the pending sub-request, then the wait
after_sync(w, d) == With(w, LAMBDA s :
    IF s.dev[d].ld_sub_request # NoReq
    THEN IF s.reqc[s.dev[d].ld_sub_request].kind = "format"
         THEN dev_handle_format(s, d)
         ELSE dev_handle_read_write(s, d)
    ELSE {[s EXCEPT !.dev[d].pc = pc_after(s.dev[d], 0)]})

\* what dev_sync can meet: the medium sync and the DSS update
SyncChoices == [sync_ok : BOOLEAN, dss_ok : BOOLEAN]

\* the number of failed calls of a choice
sync_faults(c) == failed_calls(c.sync_ok) + failed_calls(c.dss_ok)

\* lrs_dev_thread from the call of dev_sync on
sync_with(w, d, c) == With(w, LAMBDA s :
    LET sy == dev_sync(s, d, c.sync_ok, c.dss_ok)
    IN  IF sy.rc # 0
        THEN {[sy.s EXCEPT !.dev[d].status = sy.rc, !.dev[d].pc = "end"]}
        ELSE after_sync(sy.s, d))

\* one iteration of the loop of lrs_dev_thread: the states it can leave;
\* past: the oldest pending release is older than sync_time, or the written
\* size reached sync_wsize_kb
thread_iteration(w, d, past) == With(w, LAMBDA s :
    LET s1 == remove_canceled_sync(loop_cancel(s, d), d)
        s2 == IF s1.dev[d].ld_needs_sync THEN s1
              ELSE check_needs_sync(s1, d, past)
        s3 == IF stop_condition(s2.dev[d])
              THEN [s2 EXCEPT !.dev[d].state = "STOPPED"]
              ELSE s2
        dv == s3.dev[d]
    IN  IF dv.ld_ongoing_io
        THEN {[s3 EXCEPT !.dev[d].pc = pc_after(dv, 0)]}
        ELSE IF dv.ld_needs_sync
        THEN UNION {sync_with(charge(s3, sync_faults(c)), d, c) :
                      c \in {x \in SyncChoices : can_fail(s3, sync_faults(x))}}
        ELSE after_sync(s3, d))

\* the device thread runs one iteration of its loop
lrs_dev_thread(d) ==
    /\ dev[d].pc = "loop"
    /\ \E past \in (IF Len(dev[d].tosync_array) > 0 THEN BOOLEAN ELSE {FALSE}) :
        \E s \in thread_iteration(cur, d, past) : Becomes(s)
    /\ UNCHANGED <<running, d2d_ok, lockvars, schedvars, auxvars>>

\* the DSS calls cancel_pending_format makes for the medium of a format
\* request: dss_medium_release, and dss_media_set when the release failed
\* ("unlock_fail": the release fails, "set_fail": both fail)
cancel_format_faults(dssv) ==
    IF dssv = "set_fail" THEN 2 ELSE failed_calls(dssv = "ok")

\* the pending sub-request of the device is a format request that cancels with
\* calls to the DSS: its medium was not transferred to the device
cancel_format_calls_dss(s, d) ==
    LET r == s.dev[d].ld_sub_request
    IN  /\ r # NoReq
        /\ s.reqc[r].kind = "format"
        /\ s.reqc[r].alloc_medium # NoMedium

\* cancel_pending_format. The request of the pending sub-request is read as a
\* format request whatever its kind: for a read or a write
\* params.format.medium_to_format is the storage of params.rwalloc, and
\* requeue is what the code then happens to do (true: the container goes back
\* to the scheduler, false: it gets an error response)
cancel_pending_format(w, d, requeue, dssv) == With(w, LAMBDA s :
    LET r == s.dev[d].ld_sub_request
        s1 == [s EXCEPT !.dev[d].ld_sub_request = NoReq]
        m == s.reqc[r].alloc_medium
        requeued(t) ==
            [t EXCEPT !.incoming = Append(@, r), !.reqc[r].loc = "incoming"]
        answered(t) == req_ended(queue_response(t, r, "err"), r)
    IN  IF r = NoReq THEN s
        ELSE IF s.reqc[r].kind # "format"
        THEN IF requeue THEN requeued(s1) ELSE answered(s1)
        ELSE IF s.dev[d].status # 0 /\ m = NoMedium
        THEN answered(s1)
        ELSE IF m # NoMedium
        THEN IF dssv = "ok"
             THEN requeued([dss_medium_release(s1, m, TRUE) EXCEPT
                              !.reqc[r].alloc_medium = NoMedium])
             ELSE answered(
                    [fail_decided(s1, m, dssv # "set_fail") EXCEPT
                       !.dss.mfailed[m] = IF dssv # "set_fail" THEN TRUE ELSE @,
                       !.reqc[r].alloc_medium = NoMedium])
        ELSE requeued(s1))

\* dev_thread_end_mounted_medium
dev_thread_end_mounted_medium(w, d, um_ok, dssv) == With(w, LAMBDA s :
    LET dv == s.dev[d]
        um == IF dv.status = 0 THEN dev_umount(s, d, um_ok)
              ELSE [s |-> s, rc |-> 0]
        s1 == [um.s EXCEPT !.dev[d].status = IF um.rc # 0 THEN um.rc ELSE @]
        m == s1.dev[d].ld_dss_media_info
    IN  IF dv.ld_op_status # "MOUNTED" THEN s
        ELSE IF s1.dev[d].status # 0 /\ m # NoMedium
        THEN fail_release_free_medium(s1, d, m, dssv, TRUE)
        ELSE s1)

dev_thread_end_leaves_medium_locked(w, d, rel_ok, dssv) == w

\* dev_thread_end_loaded_medium; rel_ok: the first dss_medium_release succeeds
dev_thread_end_loaded_medium(w, d, rel_ok, dssv) == With(w, LAMBDA s :
    LET dv == s.dev[d]
        m == dv.ld_dss_media_info
        s1 == IF dv.status # 0 THEN s
              ELSE IF rel_ok
              THEN [dss_medium_release(s, m, TRUE) EXCEPT
                      !.dev[d].ld_dss_media_info = NoMedium]
              ELSE [s EXCEPT !.dev[d].status = -EIO]
    IN  IF dv.ld_op_status # "LOADED" THEN s
        ELSE IF s1.dev[d].status # 0 /\ s1.dev[d].ld_dss_media_info # NoMedium
        THEN fail_release_free_medium(s1, d, m, dssv, TRUE)
        ELSE [s1 EXCEPT !.dev[d].ld_dss_media_info = NoMedium])

device_lock_released_on_error_only(status, rel_ok, dssv) ==
    IF status = 0 /\ rel_ok THEN FALSE ELSE dssv = "ok"

\* dev_thread_end_device: whether the DSS lock of the device is released;
\* status: the thread status on entry, rel_ok: the first dss_device_release
\* succeeds, dssv: the DSS calls of the error path
device_lock_released(status, rel_ok, dssv) ==
    IF status = 0 /\ rel_ok THEN TRUE ELSE dssv = "ok"

\* dev_thread_end_device
dev_thread_end_device(w, d, rel_ok, dssv) == With(w, LAMBDA s :
    LET dv == s.dev[d]
        status == IF dv.status = 0 /\ ~rel_ok THEN -EIO ELSE dv.status
        s1 == IF status # 0
              THEN [set_op_status(
                      clean_tosync_array(
                        fail_decided(s, d, dssv # "set_fail"), d, status),
                      d, "FAILED")
                      EXCEPT
                      !.dss.dfailed[d] = IF dssv # "set_fail" THEN TRUE ELSE @]
              ELSE s
    IN  [s1 EXCEPT
            !.dss.dlock[d] = IF device_lock_released(dv.status, rel_ok, dssv)
                             THEN FALSE ELSE @,
            !.dev[d].status = status,
            !.dev[d].ld_ongoing_io = FALSE])

\* dev_thread_end up to the call of dev_thread_end_device: the pending
\* sub-request and the medium of the device
dev_thread_end(d) ==
    /\ dev[d].pc = "end"
    /\ \E requeue \in BOOLEAN, um_ok \in BOOLEAN, m_rel_ok \in BOOLEAN,
          m_dssv \in DssOutcomes,
          f_dssv \in (IF cancel_format_calls_dss(cur, d) THEN DssOutcomes
                      ELSE {"ok"}) :
        LET n == failed_calls(um_ok) + failed_calls(m_rel_ok)
                   + failed_calls(m_dssv = "ok") + cancel_format_faults(f_dssv)
            s0 == [charge(cur, n) EXCEPT !.dev[d].state =
                       IF thread_is_running(dev[d]) THEN "STOPPING" ELSE @]
            s1 == cancel_pending_format(s0, d, requeue, f_dssv)
            s2 == dev_thread_end_mounted_medium(s1, d, um_ok, m_dssv)
            s3 == dev_thread_end_loaded_medium(s2, d, m_rel_ok, m_dssv)
        IN  /\ can_fail(cur, n)
            /\ Becomes([s3 EXCEPT !.dev[d].pc = "end_device"])
    /\ UNCHANGED <<running, d2d_ok, lockvars, schedvars, auxvars>>

\* the end of dev_thread_end: dev_thread_end_device, then pthread_exit
dev_thread_exit(d) ==
    /\ dev[d].pc = "end_device"
    /\ \E d_rel_ok \in BOOLEAN, d_dssv \in DssOutcomes :
        LET n == failed_calls(d_rel_ok) + failed_calls(d_dssv = "ok")
            s4 == dev_thread_end_device(charge(cur, n), d, d_rel_ok, d_dssv)
        IN  /\ can_fail(cur, n)
            /\ Becomes([s4 EXCEPT !.dev[d].pc = "exited"])
    /\ UNCHANGED <<running, d2d_ok, lockvars, schedvars, auxvars>>

(* ---------------------------------------------------------------------- *)
(* The scheduler and the clients, as far as the device threads see them   *)
(* ---------------------------------------------------------------------- *)

\* a medium the scheduler may allocate: not locked, not failed, not loaded in
\* a device of this host, and not full for a write
medium_is_free(s, m, kind) ==
    /\ ~s.dss.mlock[m]
    /\ ~s.dss.mfailed[m]
    /\ kind = "write" => ~s.dss.mfull[m]
    /\ \A d \in Devices : s.dev[d].ld_dss_media_info # m

\* the scheduler gives device d the sub-request of r: on the medium already in
\* the device (m = NoMedium) or on a medium it locks for it
sched_give(w, d, r, m) == With(w, LAMBDA s :
    [s EXCEPT !.dev[d].ld_sub_request = r,
              !.hist.attempts[r] = @ + 1,
              !.reqc[r].alloc_medium = m,
              !.reqc[r].failure_on_medium = FALSE,
              !.reqc[r].status = "TODO",
              !.reqc[r].loc = "dev",
              !.dss.mlock = IF m # NoMedium THEN [@ EXCEPT ![m] = TRUE] ELSE @])

\* the device's own medium can serve a request of this kind
own_medium_usable(s, d, kind) ==
    /\ s.dev[d].ld_op_status \in {"LOADED", "MOUNTED"}
    /\ s.dev[d].ld_dss_media_info # NoMedium
    /\ kind = "write" => ~s.dss.mfull[s.dev[d].ld_dss_media_info]

\* a new read or write allocation is scheduled on a device
Dispatch(r, d) ==
    /\ running
    /\ reqc[r].loc = "new"
    /\ \A q \in ReqIds : q < r => reqc[q].loc # "new"
    /\ dev_is_sched_ready(cur, d)
    /\ \E kind \in {"read", "write"}, alt \in BOOLEAN, m \in Media \cup {NoMedium} :
        /\ kind = "write" => ~alt
        /\ IF m = NoMedium THEN own_medium_usable(cur, d, kind)
           ELSE medium_is_free(cur, m, kind)
        /\ Becomes(sched_give([cur EXCEPT !.reqc[r].kind = kind,
                                          !.reqc[r].alt = alt], d, r, m))
    /\ UNCHANGED <<running, d2d_ok, lockvars, schedvars, auxvars>>

\* the head of the retry queue is scheduled again: with the medium it still
\* holds, or with another one when its medium failed
DispatchRetry(d) ==
    /\ running
    /\ Len(sched_retry_queue) > 0
    /\ dev_is_sched_ready(cur, d)
    /\ LET r == Head(sched_retry_queue)
           s1 == [cur EXCEPT !.retry = Tail(@)]
           held == reqc[r].alloc_medium
       IN  IF held # NoMedium
           THEN Becomes([sched_give(s1, d, r, held) EXCEPT
                           !.reqc[r].failure_on_medium =
                               reqc[r].failure_on_medium])
           ELSE \E m \in Media :
                   /\ medium_is_free(cur, m, reqc[r].kind)
                   /\ Becomes(sched_give(s1, d, r, m))
    /\ UNCHANGED <<running, d2d_ok, lockvars, schedvars, auxvars>>

\* a retry that no medium can serve any more ends with an error response
RetryFails ==
    /\ running
    /\ Len(sched_retry_queue) > 0
    /\ LET r == Head(sched_retry_queue)
       IN  /\ reqc[r].alloc_medium = NoMedium
           /\ \A m \in Media : ~medium_is_free(cur, m, reqc[r].kind)
           /\ Becomes(req_ended(queue_response(
                  [cur EXCEPT !.retry = Tail(@),
                              !.reqc[r].status = "ERROR"], r, "err"), r))
    /\ UNCHANGED <<running, d2d_ok, lockvars, schedvars, auxvars>>

\* the client releases the medium of request r: the I/O on the device is over,
\* and a write is to be synced
ClientRelease(r) ==
    LET d == reqc[r].dev
    IN  /\ reqc[r].loc = "io"
        /\ dev_is_release_ready(dev[d])
        /\ \E client_rc \in {0, -EIO} :
            LET s1 == [charge(cur, failed_calls(client_rc = 0)) EXCEPT
                         !.dev[d].ld_ongoing_io = FALSE,
                         !.reqc[r].client_rc = client_rc]
            IN  /\ can_fail(cur, failed_calls(client_rc = 0))
                /\ Becomes(IF reqc[r].kind = "write"
                            THEN push_new_sync_to_device(s1, d, r)
                            ELSE req_ended(s1, r))
        /\ UNCHANGED <<running, d2d_ok, lockvars, schedvars, auxvars>>

\* a request that arrives once the daemon is stopping is refused with an error
\* response
RefuseNewRequest(r) ==
    /\ ~running
    /\ reqc[r].loc = "new"
    /\ \E d \in Devices : dev[d].pc # "exited"
    /\ Becomes(queue_response([cur EXCEPT !.reqc[r].loc = "end",
                                          !.reqc[r].status = "ERROR"], r, "err"))
    /\ UNCHANGED <<running, d2d_ok, lockvars, schedvars, auxvars>>

\* SIGTERM: running is cleared, every device thread is signalled to stop
\* (lrs_dev_hdl_clear), and what waits in the scheduler is answered in error
SignalStop ==
    /\ running
    /\ running' = FALSE
    /\ LET waiting == SeqToSet(sched_retry_queue) \cup SeqToSet(sched_req_queue)
       IN  Becomes([cur EXCEPT
             !.dev = [d \in Devices |->
                        IF thread_is_running(dev[d])
                        THEN [dev[d] EXCEPT !.state = "STOPPING"]
                        ELSE dev[d]],
             !.hist.busy_at_stop =
                 {d \in Devices : /\ thread_is_running(dev[d])
                                   /\ \/ dev[d].ld_ongoing_io
                                      \/ dev[d].ld_sub_request # NoReq
                                      \/ Len(dev[d].tosync_array) > 0},
             !.retry = <<>>,
             !.incoming = <<>>,
             !.reqc = [r \in ReqIds |->
                        IF r \in waiting
                        THEN [InitReqRec EXCEPT !.kind = reqc[r].kind,
                                                !.loc = "end"]
                        ELSE reqc[r]],
             !.resp = [r \in ReqIds |->
                        IF r \in waiting
                        THEN [response_queue[r] EXCEPT !.err = @ + 1]
                        ELSE response_queue[r]]])
    /\ UNCHANGED <<d2d_ok, lockvars, schedvars, auxvars>>

(* ---------------------------------------------------------------------- *)
(* The device workers: initial state and next-state relation              *)
(* ---------------------------------------------------------------------- *)

\* the devices alive have a running thread and hold their DSS lock, the others
\* ended their thread; the media usable are not failed; the requests todo are
\* still to come; budget calls may fail; held: the pairs of a device and of
\* the medium the scan of the library found loaded in it, which the daemon
\* locked
InitDevicesHolding(alive, usable, todo, budget, held) ==
    /\ dev = [d \in Devices |->
                IF d \in alive
                THEN IF \E m \in Media : <<d, m>> \in held
                     THEN [InitDevRec EXCEPT
                             !.ld_op_status = "LOADED",
                             !.ld_dss_media_info =
                                 CHOOSE m \in Media : <<d, m>> \in held]
                     ELSE InitDevRec
                ELSE [InitDevRec EXCEPT !.state = "STOPPED", !.pc = "exited"]]
    /\ reqc = [r \in ReqIds |->
                 IF r \in todo THEN InitReqRec
                 ELSE [InitReqRec EXCEPT !.loc = "end"]]
    /\ sched_retry_queue = <<>>
    /\ sched_req_queue = <<>>
    /\ response_queue = [r \in ReqIds |-> InitResp]
    /\ lib = [m \in Media |->
                IF \E d \in Devices : <<d, m>> \in held
                THEN CHOOSE d \in Devices : <<d, m>> \in held
                ELSE "slot"]
    /\ dss = [dfailed |-> [d \in Devices |-> FALSE],
              mlock |-> [m \in Media |->
                           \E d \in Devices : <<d, m>> \in held],
              mfailed |-> [m \in Media |-> m \notin usable],
              mfull |-> [m \in Media |-> FALSE],
              dlock |-> [d \in Devices |-> d \in alive]]
    /\ running = TRUE
    /\ d2d_ok \in BOOLEAN
    /\ hist = [off_edge |-> FALSE, busy_at_stop |-> {},
               umounted |-> {}, synced |-> {},
               attempts |-> [r \in ReqIds |-> 0],
               mount_failed |-> [r \in ReqIds |-> 0],
               fail_decided |-> {}, quarantined |-> {},
               max_faults |-> budget]
    /\ faults = 0

\* the same with every drive empty
InitDevices(alive, usable, todo, budget) ==
    InitDevicesHolding(alive, usable, todo, budget, {})

\* two devices and two media, the third device ended and the third medium
\* failed
InitDev == InitDevices({"d1", "d2"}, {"m1", "m2"}, ReqIds, MaxFaults)

InitLockIdle ==
    /\ locks = [k \in {} |-> "none"]
    /\ lk = [phase |-> "off"]

InitSchedIdle == fs = [phase |-> "off"]

InitRelIdle == rel = [phase |-> "off"]

InitStatIdle == med = [phase |-> "off"]

InitQueueIdle == tsq = [phase |-> "off"]

InitWireIdle == wire = [phase |-> "off"]

InitAllocIdle == al = [phase |-> "off"]

InitFlushIdle == fl = [phase |-> "off"]

InitRetryIdle == rt = [phase |-> "off"]

InitWakeupIdle == wk = [phase |-> "off"]

InitHandleIdle == hd = [phase |-> "off"]

InitLateIdle == InitRetryIdle /\ InitWakeupIdle /\ InitHandleIdle

InitMoreIdle == InitAllocIdle /\ InitFlushIdle /\ InitLateIdle

InitAuxIdle ==
    /\ InitRelIdle
    /\ InitStatIdle
    /\ InitQueueIdle
    /\ InitWireIdle
    /\ InitMoreIdle

Init == InitDev /\ InitLockIdle /\ InitSchedIdle /\ InitAuxIdle

Next ==
    \/ \E d \in Devices : lrs_dev_thread(d)
    \/ \E d \in Devices : dev_thread_end(d)
    \/ \E d \in Devices : dev_thread_exit(d)
    \/ \E r \in ReqIds, d \in Devices : Dispatch(r, d)
    \/ \E d \in Devices : DispatchRetry(d)
    \/ RetryFails
    \/ \E r \in ReqIds : ClientRelease(r)
    \/ \E r \in ReqIds : RefuseNewRequest(r)
    \/ SignalStop

Spec == Init /\ [][Next]_vars

\* the same, each device thread being scheduled as long as it can take a step
LiveSpec ==
    /\ Init
    /\ [][Next]_vars
    /\ \A d \in Devices : /\ WF_vars(lrs_dev_thread(d))
                          /\ WF_vars(dev_thread_end(d))
                          /\ WF_vars(dev_thread_exit(d))

(* ---------------------------------------------------------------------- *)
(* Retry of a read on other media: three devices, three media, one request *)
(* ---------------------------------------------------------------------- *)

\* with three media and two failing calls a retry always finds a medium, and
\* the daemon is not stopped
RetryInit ==
    /\ InitDevices(Devices, Media, {1}, MaxRetryFaults)
    /\ InitLockIdle
    /\ InitSchedIdle
    /\ InitAuxIdle

NextRetry ==
    \/ \E d \in Devices : lrs_dev_thread(d)
    \/ \E d \in Devices : dev_thread_end(d)
    \/ \E d \in Devices : dev_thread_exit(d)
    \/ \E r \in ReqIds, d \in Devices : Dispatch(r, d)
    \/ \E d \in Devices : DispatchRetry(d)
    \/ \E r \in ReqIds : ClientRelease(r)

SpecRetry == RetryInit /\ [][NextRetry]_vars

(* ---------------------------------------------------------------------- *)
(* The DSS lock rows over a start and a stop of the daemon                *)
(* ---------------------------------------------------------------------- *)

LockTypes == {"device", "media", "media_update"}

\* a resource registered for this host, and one registered for another host
\* (lrs_dev_hdl_add only takes the devices whose host is lock_hostname)
Resources == {"own", "foreign"}

Hosts == {"self", "other"}

NoHost == "none"

LockKeys == LockTypes \X Resources

\* the rows of hostname h
rows_of(lt, h) == {k \in LockKeys : lt[k] = h}

lock_is_anyones(h) == h # NoHost

\* startup reconciliation: a row is released when its hostname is the
\* daemon's, whether its resource is in the local view or not
lock_is_stale(h) == h = "self"

\* the lock table after the startup reconciliation
sched_clean_locks(lt) ==
    [k \in LockKeys |-> IF lock_is_stale(lt[k]) THEN NoHost ELSE lt[k]]

\* dss_lock on a resource: taken when no row exists
dss_lock(lt, k) == IF lt[k] = NoHost THEN [lt EXCEPT ![k] = "self"] ELSE lt

\* dss_unlock without force: only the holder releases
dss_unlock(lt, k) == IF lt[k] = "self" THEN [lt EXCEPT ![k] = NoHost] ELSE lt

\* the daemon starts: the locks of its hostname left by a previous instance
\* are released before any request is served
lock_recover ==
    /\ lk.phase = "start"
    /\ locks' = sched_clean_locks(locks)
    /\ lk' = [lk EXCEPT !.phase = "run",
                        !.cleaned = Cardinality(rows_of(locks, "self"))]
    /\ UNCHANGED <<devvars, running, d2d_ok, schedvars, auxvars>>

\* the daemon locks a resource of its host: its device when the device is
\* added, a medium for an allocation or for an update
lock_take(k) ==
    /\ lk.phase = "run"
    /\ k[2] = "own"
    /\ locks[k] = NoHost
    /\ locks' = dss_lock(locks, k)
    /\ lk' = [lk EXCEPT !.held = TRUE]
    /\ UNCHANGED <<devvars, running, d2d_ok, schedvars, auxvars>>

\* dss_medium_release after an unload, or the end of an update of a medium
lock_release(k) ==
    /\ lk.phase = "run"
    /\ k[1] # "device"
    /\ locks[k] = "self"
    /\ locks' = dss_unlock(locks, k)
    /\ UNCHANGED <<lk, devvars, running, d2d_ok, schedvars, auxvars>>

\* the daemon stops: the device thread ends (dev_thread_end_loaded_medium,
\* dev_thread_end_device); rel_ok: the releases succeed, dssv: the DSS calls
\* of the error path
lock_stop ==
    /\ lk.phase = "run"
    /\ \E rel_ok \in BOOLEAN, dssv \in DssOutcomes :
        LET dk == <<"device", "own">>
            mk == <<"media", "own">>
            uk == <<"media_update", "own">>
            status == IF rel_ok THEN 0 ELSE -EIO
            l1 == IF rel_ok \/ lock_released_after_failed_update(dssv)
                  THEN dss_unlock(locks, mk) ELSE locks
            l2 == dss_unlock(l1, uk)
            l3 == IF device_lock_released(0, rel_ok, dssv)
                  THEN dss_unlock(l2, dk) ELSE l2
        IN  /\ rel_ok => dssv = "ok"
            /\ locks' = l3
            /\ lk' = [lk EXCEPT !.phase = "stopped", !.status = status]
    /\ UNCHANGED <<devvars, running, d2d_ok, schedvars, auxvars>>

InitLock ==
    /\ locks \in [LockKeys -> Hosts \cup {NoHost}]
    /\ lk = [phase |-> "start", status |-> 0, cleaned |-> 0, held |-> FALSE]

InitDevIdle == InitDev /\ ~d2d_ok

NextLock ==
    \/ lock_recover
    \/ \E k \in LockKeys : lock_take(k)
    \/ \E k \in LockKeys : lock_release(k)
    \/ lock_stop

\* the daemon is about to start on some lock table; no request is served
LockInit == InitDevIdle /\ InitLock /\ InitSchedIdle /\ InitAuxIdle

SpecLock == LockInit /\ [][NextLock]_vars

(* ---------------------------------------------------------------------- *)
(* The fair_share dispatch of the scheduler, and its stop                 *)
(* ---------------------------------------------------------------------- *)

Technos == {"LTO5", "LTO6"}

Kinds == {"read", "write", "format"}

\* the largest maximum an administrator sets
MaxSlots == 1

\* tapes, and drives, of each technology
NumTapes == 2

NumFsReq == 2

FsReqs == 1..NumFsReq

Tapes == 1..NumTapes

InitFsReq ==
    [st |-> "new", kind |-> "none", techno |-> "none", tape |-> 0,
     denied |-> FALSE]

\* the requests of state st
reqs_in(fsv, st) == {r \in FsReqs : fsv.req[r].st = st}

\* the requests running on devices of technology t with kind k
running_reqs(fsv, t, k) ==
    {r \in reqs_in(fsv, "running") :
        fsv.req[r].techno = t /\ fsv.req[r].kind = k}

fair_share_admits_at_max(fsv, t, k) == fsv.in_flight[t][k] <= fsv.max[t][k]

\* fair_share admits a request whose kind has not reached its maximum
fair_share_admits(fsv, t, k) == fsv.in_flight[t][k] < fsv.max[t][k]

\* no running request uses the tape
tape_is_idle(fsv, t, n) ==
    \A r \in reqs_in(fsv, "running") :
        ~(fsv.req[r].techno = t /\ fsv.req[r].tape = n)

lock_needed_by_running_only(fsv, t, n) ==
    \E r \in reqs_in(fsv, "running") :
        fsv.req[r].techno = t /\ fsv.req[r].tape = n

\* the tape is locked for a request: one that runs, or one that waits
lock_needed(fsv, t, n) ==
    \E r \in reqs_in(fsv, "running") \cup reqs_in(fsv, "waiting") :
        fsv.req[r].techno = t /\ fsv.req[r].tape = n

stop_leaves_waiting(st) == st

\* what the stop makes of a request: a waiting one ends in error
stop_cancels_waiting(st) == IF st = "waiting" THEN "error" ELSE st

\* a request reaches the scheduler: it waits, with its tape locked for it, or
\* it is refused when the daemon is stopping
fs_arrive(r) ==
    /\ fs.phase \in {"run", "stopping"}
    /\ fs.req[r].st = "new"
    /\ \A q \in FsReqs : q < r => fs.req[q].st # "new"
    /\ \E k \in Kinds, t \in Technos, n \in Tapes :
        fs' = IF fs.phase = "stopping"
              THEN [fs EXCEPT !.req[r].st = "error"]
              ELSE [fs EXCEPT !.req[r] = [InitFsReq EXCEPT !.st = "waiting",
                                                           !.kind = k,
                                                           !.techno = t,
                                                           !.tape = n],
                              !.mlock[t][n] = "self"]
    /\ UNCHANGED <<devvars, running, d2d_ok, lockvars, auxvars>>

\* a waiting request is given to a device
fs_dispatch(r) ==
    LET rq == fs.req[r]
    IN  /\ fs.phase = "run"
        /\ rq.st = "waiting"
        /\ fair_share_admits(fs, rq.techno, rq.kind)
        /\ tape_is_idle(fs, rq.techno, rq.tape)
        /\ fs' = [fs EXCEPT !.req[r].st = "running",
                            !.in_flight[rq.techno][rq.kind] = @ + 1]
        /\ UNCHANGED <<devvars, running, d2d_ok, lockvars, auxvars>>

\* a waiting request is not admitted: it is left in the queue
fs_deny(r) ==
    LET rq == fs.req[r]
    IN  /\ fs.phase = "run"
        /\ rq.st = "waiting"
        /\ ~rq.denied
        /\ ~fair_share_admits(fs, rq.techno, rq.kind)
        /\ fs' = [fs EXCEPT !.req[r].denied = TRUE]
        /\ UNCHANGED <<devvars, running, d2d_ok, lockvars, auxvars>>

\* a running request completes and is answered
fs_complete(r) ==
    LET rq == fs.req[r]
    IN  /\ rq.st = "running"
        /\ fs' = [fs EXCEPT !.req[r].st = "done",
                            !.in_flight[rq.techno][rq.kind] = @ - 1]
        /\ UNCHANGED <<devvars, running, d2d_ok, lockvars, auxvars>>

\* a tape no request needs is unloaded and its lock released
fs_unlock(t, n) ==
    /\ fs.mlock[t][n] = "self"
    /\ ~lock_needed(fs, t, n)
    /\ fs' = [fs EXCEPT !.mlock[t][n] = "none"]
    /\ UNCHANGED <<devvars, running, d2d_ok, lockvars, auxvars>>

\* phobos sched fair_share --max: a maximum is raised
fs_raise_max(t, k) ==
    /\ fs.phase = "run"
    /\ fs.max[t][k] < MaxSlots
    /\ fs' = [fs EXCEPT !.max[t][k] = @ + 1]
    /\ UNCHANGED <<devvars, running, d2d_ok, lockvars, auxvars>>

\* the stop signal: what waits in the scheduler is answered in error
fs_stop ==
    /\ fs.phase = "run"
    /\ fs' = [fs EXCEPT
                !.phase = "stopping",
                !.req = [r \in FsReqs |->
                           [fs.req[r] EXCEPT !.st = stop_cancels_waiting(@)]]]
    /\ UNCHANGED <<devvars, running, d2d_ok, lockvars, auxvars>>

InitSched ==
    \E mx \in [Technos -> [Kinds -> 0..MaxSlots]] :
        fs = [phase |-> "run",
              max |-> mx,
              in_flight |-> [t \in Technos |-> [k \in Kinds |-> 0]],
              req |-> [r \in FsReqs |-> InitFsReq],
              mlock |-> [t \in Technos |-> [n \in Tapes |-> "none"]]]

\* the scheduler runs with some maxima; the device workers are left aside
SchedInit == InitDevIdle /\ InitLockIdle /\ InitSched /\ InitAuxIdle

NextSched ==
    \/ \E r \in FsReqs : fs_arrive(r)
    \/ \E r \in FsReqs : fs_dispatch(r)
    \/ \E r \in FsReqs : fs_deny(r)
    \/ \E r \in FsReqs : fs_complete(r)
    \/ \E t \in Technos, n \in Tapes : fs_unlock(t, n)
    \/ \E t \in Technos, k \in Kinds : fs_raise_max(t, k)
    \/ fs_stop

\* the scheduler and the devices keep working: a request that can be
\* dispatched is dispatched, a running request completes
SpecSched ==
    /\ SchedInit
    /\ [][NextSched]_vars
    /\ \A r \in FsReqs : WF_vars(fs_dispatch(r)) /\ WF_vars(fs_complete(r))

(* ---------------------------------------------------------------------- *)
(* Operational status of a device                                         *)
(* ---------------------------------------------------------------------- *)

\* C1: no assignment of the operational status of a device leaves the edges
\* EMPTY->LOADED, LOADED->MOUNTED, MOUNTED->LOADED, LOADED->EMPTY and
\* any->FAILED, and a device whose operational status is FAILED keeps it
C1_OpStatusEdges ==
    [][/\ ~hist'.off_edge
       /\ \A d \in Devices :
            dev[d].ld_op_status = "FAILED" => dev'[d].ld_op_status = "FAILED"
      ]_vars

\* C1 witness: a device is FAILED while the other one, which unmounted a
\* medium before, has a medium mounted
C1_Witness ==
    \E d1 \in Devices, d2 \in Devices :
        /\ dev[d1].ld_op_status = "FAILED"
        /\ dev[d2].ld_op_status = "MOUNTED"
        /\ hist.umounted # {}

(* ---------------------------------------------------------------------- *)
(* One device per loaded medium                                           *)
(* ---------------------------------------------------------------------- *)

\* C2: for every medium m at most one device has m as its loaded medium, also
\* after a load that failed on the device side left the sub-request requeued
\* with m
C2_OneDevicePerMedium ==
    \A m \in Media :
        Cardinality({d \in Devices : dev[d].ld_dss_media_info = m}) <= 1

(* ---------------------------------------------------------------------- *)
(* Acknowledgement of the releases                                        *)
(* ---------------------------------------------------------------------- *)

\* the release entry of r was resolved by exactly one answer: a release
\* response when it is done, an error response otherwise
release_answered_once(r) ==
    /\ reqc[r].rel_status = "DONE"
          => response_queue[r].release = 1 /\ response_queue[r].relerr = 0
    /\ reqc[r].rel_status = "ERROR"
          => response_queue[r].release = 0 /\ response_queue[r].relerr = 1
    /\ reqc[r].rel_status \in {"NONE", "TODO"}
          => response_queue[r].release = 0 /\ response_queue[r].relerr = 0

AllReleased == ~running /\ \A r \in ReqIds : reqc[r].loc # "io"

\* every device thread has exited, so that it can be joined
AllJoined == \A d \in Devices : dev[d].pc = "exited"

\* C5: when, after the stop signal, every client holding an allocation has
\* released it for good, every device thread eventually exits
C5_StopTerminates == <>[]AllReleased => <>AllJoined

(* ---------------------------------------------------------------------- *)
(* Locks of the other hosts, locks of this host                           *)
(* ---------------------------------------------------------------------- *)

\* C6: a lock row whose hostname is not the daemon's is never released nor
\* modified, at the startup reconciliation or later
C6_ForeignLocksUntouched ==
    [][\A k \in LockKeys : locks[k] = "other" => locks'[k] = "other"]_vars

\* C6 witness: the daemon started, released rows of its own hostname, and
\* stopped, and a row of another host is there
C6_Witness ==
    /\ lk.phase = "stopped"
    /\ lk.cleaned > 0
    /\ rows_of(locks, "other") # {}

\* C7: after a start and a clean stop no row of type device, media or
\* media_update has the hostname of the daemon, on a resource of its host or
\* on a resource of another host, and the exit status is 0 exactly when the
\* stop was clean
C7_NoOwnLockAfterCleanStop ==
    (lk.phase = "stopped" /\ lk.status = 0) => rows_of(locks, "self") = {}

\* C7 witness: a clean stop, after rows of the daemon's hostname were
\* released at startup and the daemon took locks while it was running
C7_Witness ==
    /\ lk.phase = "stopped"
    /\ lk.status = 0
    /\ lk.cleaned > 0
    /\ lk.held

(* ---------------------------------------------------------------------- *)
(* fair_share: maxima, locks of the waiting requests, stop                *)
(* ---------------------------------------------------------------------- *)

\* C8: for every technology and every kind the requests in flight, as
\* counted by the dispatcher and as they are, never exceed the maximum; no
\* read is in flight for a technology whose read maximum is 0
C8_InFlightWithinMax ==
    \A t \in Technos, k \in Kinds :
        /\ fs.in_flight[t][k] = Cardinality(running_reqs(fs, t, k))
        /\ fs.in_flight[t][k] <= fs.max[t][k]
        /\ fs.max[t]["read"] = 0 => running_reqs(fs, t, "read") = {}

\* C8 witness: a read was denied on a technology whose read maximum is 0
\* while a write runs on it, and the other technology runs at its maximum
C8_Witness ==
    \E t1 \in Technos, t2 \in Technos, r \in FsReqs :
        /\ t1 # t2
        /\ fs.max[t1]["read"] = 0
        /\ fs.req[r].st = "waiting" /\ fs.req[r].denied
        /\ fs.req[r].techno = t1 /\ fs.req[r].kind = "read"
        /\ \E k \in Kinds : fs.in_flight[t2][k] = MaxSlots

\* a waiting read that fair_share has denied
denied_read(r) ==
    /\ fs.req[r].st = "waiting"
    /\ fs.req[r].kind = "read"
    /\ fs.req[r].denied

\* C9: while a read denied by fair_share waits, the lock of its tape keeps
\* its hostname; and once the read maximum of its technology is raised the
\* read is dispatched and completes, unless the daemon is stopped
C9_DeniedReadKeepsLock ==
    /\ [][\A r \in FsReqs :
            (fs.req[r].st = "waiting" /\ fs.req[r].kind = "read"
               /\ fs'.req[r].st = "waiting")
               => fs'.mlock[fs.req[r].techno][fs.req[r].tape]
                    = fs.mlock[fs.req[r].techno][fs.req[r].tape]]_vars
    /\ \A r \in FsReqs :
          (denied_read(r) /\ fs.max[fs.req[r].techno]["read"] > 0)
              ~> (fs.req[r].st = "done" \/ fs.phase = "stopping")

\* C9 witness: a read that was denied has completed, its tape still locked
C9_Witness ==
    \E r \in FsReqs :
        /\ fs.req[r].st = "done"
        /\ fs.req[r].kind = "read"
        /\ fs.req[r].denied
        /\ fs.mlock[fs.req[r].techno][fs.req[r].tape] = "self"

\* C10: once the daemon is stopping no request waits in the scheduler, the
\* stop answers every waiting request by an error, and no request is
\* dispatched afterwards
C10_StopCancelsWaiting ==
    /\ [](fs.phase = "stopping" => reqs_in(fs, "waiting") = {})
    /\ [][\A r \in FsReqs :
            /\ (fs.req[r].st = "waiting" /\ fs'.phase = "stopping")
                  => fs'.req[r].st = "error"
            /\ (fs.phase = "stopping" /\ fs.req[r].st # "running")
                  => fs'.req[r].st # "running"]_vars

\* C10 witness: the daemon is stopping, a request that was denied while it
\* waited has its error, and another request still runs
C10_Witness ==
    /\ fs.phase = "stopping"
    /\ \E r \in FsReqs : fs.req[r].st = "error" /\ fs.req[r].kind # "none"
    /\ reqs_in(fs, "running") # {}

(* ---------------------------------------------------------------------- *)
(* C11                                                                    *)
(* ---------------------------------------------------------------------- *)

\* C11: from the stop signal on no allocation is admitted: a device thread
\* that is stopping or stopped is never ready for scheduling and is given no
\* new sub-request, and a request that arrives then ends with an error
\* response and without an allocation
C11_NoAdmissionDuringStop ==
    /\ [](\A d \in Devices :
            ~thread_is_running(dev[d]) => ~dev_is_sched_ready(cur, d))
    /\ [][/\ \A d \in Devices :
               (~thread_is_running(dev[d]) /\ dev[d].ld_sub_request = NoReq)
                   => dev'[d].ld_sub_request = NoReq
           /\ \A r \in ReqIds :
               (~running /\ reqc[r].loc = "new")
                   => /\ reqc'[r].loc \in {"new", "end"}
                      /\ response_queue'[r].alloc = 0
                      /\ reqc'[r].loc = "end"
                             => response_queue'[r].err = 1]_vars

\* a request was refused while a stopping device still had an I/O to drain
C11_Witness ==
    /\ ~running
    /\ \E r \in ReqIds : /\ reqc[r].loc = "end"
                         /\ reqc[r].kind = "none"
                         /\ response_queue[r].err = 1
    /\ \E d \in Devices : thread_is_stopping(dev[d]) /\ dev[d].ld_ongoing_io
(* ---------------------------------------------------------------------- *)
(* C12                                                                    *)
(* ---------------------------------------------------------------------- *)

\* the medium the sub-request of r is served with on device d
medium_of_attempt(r, d) ==
    IF reqc[r].alloc_medium # NoMedium THEN reqc[r].alloc_medium
    ELSE dev[d].ld_dss_media_info

\* this step is a failed mount for the sub-request of r
mount_fails_for(r) == hist'.mount_failed[r] = hist.mount_failed[r] + 1

\* C12: a read with more candidate media than required survives its mount
\* failures: a failed mount sets the medium to failed in the DSS (when the DSS
\* update itself succeeds), fails the device and pushes the sub-request to
\* the retry queue without any response; the next attempt is on a device and
\* a medium that have not failed; a successful mount answers the allocation;
\* and when only mounts failed, the allocation is answered after one attempt
\* more than the number of failed mounts (3 attempts for 2 failed mounts)
C12_ReadRetriesOnMountFailure ==
    /\ [](\A r \in ReqIds :
            (/\ reqc[r].kind = "read"
             /\ response_queue[r].alloc = 1
             /\ faults = hist.mount_failed[r])
                => /\ hist.attempts[r] = hist.mount_failed[r] + 1
                   /\ response_queue[r].err = 0)
    /\ [][\A r \in ReqIds, d \in Devices :
            /\ (/\ mount_fails_for(r)
                /\ dev[d].ld_sub_request = r
                /\ reqc[r].kind = "read" /\ reqc[r].alt)
                   => /\ sched_retry_queue' = Append(sched_retry_queue, r)
                      /\ reqc'[r].alloc_medium = NoMedium
                      /\ response_queue'[r] = response_queue[r]
                      /\ dev'[d].ld_op_status = "FAILED"
                      /\ faults' = faults + 1
                           => /\ dss'.mfailed[medium_of_attempt(r, d)]
                              /\ ~dss'.mlock[medium_of_attempt(r, d)]
            /\ (/\ hist'.attempts[r] = hist.attempts[r] + 1
                /\ hist.mount_failed[r] > 0
                /\ reqc[r].kind = "read"
                /\ reqc[r].alloc_medium = NoMedium
                /\ dev'[d].ld_sub_request = r)
                   => /\ dev[d].ld_op_status # "FAILED"
                      /\ ~dss.mfailed[reqc'[r].alloc_medium]
                      /\ ~dss.mlock[reqc'[r].alloc_medium]
            /\ (/\ dev[d].ld_sub_request = r
                /\ reqc[r].kind = "read"
                /\ dev'[d].ld_sub_request = NoReq
                /\ dev'[d].ld_op_status = "MOUNTED")
                   => /\ response_queue'[r].alloc = 1
                      /\ response_queue'[r].err = 0]_vars

\* a read was allocated at its third attempt, after two failed mounts
C12_Witness ==
    \E r \in ReqIds :
        /\ reqc[r].kind = "read"
        /\ response_queue[r].alloc = 1
        /\ response_queue[r].err = 0
        /\ hist.mount_failed[r] = 2
        /\ hist.attempts[r] = 3
        /\ Cardinality({m \in Media : dss.mfailed[m]}) = 2
(* ---------------------------------------------------------------------- *)
(* C13                                                                    *)
(* ---------------------------------------------------------------------- *)

\* C13: when the mount fails for a read that has no other candidate medium,
\* the request gets its one and only error response and is ended, it is not
\* requeued, the thread of the device goes to its end, and the daemon and
\* the other device threads are left as they are; no request ever has more
\* than one error response
C13_MountFailureAnswersOnce ==
    /\ [](\A r \in ReqIds : response_queue[r].err <= 1)
    /\ [][\A r \in ReqIds, d \in Devices :
            (/\ mount_fails_for(r)
             /\ dev[d].ld_sub_request = r
             /\ reqc[r].kind = "read" /\ ~reqc[r].alt)
                => /\ response_queue[r].err = 0
                   /\ response_queue'[r].err = 1
                   /\ response_queue'[r].alloc = 0
                   /\ reqc'[r].loc = "end"
                   /\ sched_retry_queue' = sched_retry_queue
                   /\ dev'[d].pc = "end"
                   /\ dev'[d].ld_sub_request = NoReq
                   /\ running' = running
                   /\ \A o \in Devices \ {d} : dev'[o] = dev[o]]_vars

\* a read without another candidate was answered by an error after a failed
\* mount, the daemon and another device thread still running
C13_Witness ==
    \E r \in ReqIds, d, o \in Devices :
        /\ reqc[r].kind = "read"
        /\ reqc[r].loc = "end"
        /\ hist.mount_failed[r] = 1
        /\ hist.attempts[r] = 1
        /\ response_queue[r].err = 1
        /\ response_queue[r].alloc = 0
        /\ dev[d].ld_op_status = "FAILED"
        /\ dev[d].pc = "exited"
        /\ running
        /\ thread_is_running(dev[o]) /\ dev[o].pc = "loop"
(* ---------------------------------------------------------------------- *)
(* A release request spread over several devices                          *)
(* ---------------------------------------------------------------------- *)

\* what the local variables of a device thread hold outside of
\* clean_tosync_array and remove_canceled_sync
IdleWorker ==
    [pc |-> "idle", rc |-> 0, should_send_error |-> FALSE,
     is_tosync_ended |-> FALSE]

\* is_request_tosync_ended, on the status of the media of the release
is_request_tosync_ended(entry) == \A d \in Devices : entry[d] # "TODO"

\* what queue_error_response can make of a request container: a response,
\* or, reading a container that was freed, anything
error_response_outcomes(freed) ==
    IF freed THEN {"err", "lost"} ELSE {"err"}

\* clean_tosync_array, the part done with the mutex of the request
rel_clean_locked(d) ==
    /\ rel.phase = "run"
    /\ rel.w[d].pc = "idle"
    /\ rel.entry[d] = "TODO"
    /\ \E rc \in {0, -EIO} :
        LET first == rc # 0 /\ rel.rc = 0
            entry == [rel.entry EXCEPT ![d] = tosync_entry_status(rc)]
        IN  rel' = [rel EXCEPT
                      !.entry = entry,
                      !.rc = release_rc_after(@, rc),
                      !.w[d] = [pc |-> IF first THEN "send_error"
                                       ELSE "clean_end",
                                rc |-> rc,
                                should_send_error |-> first,
                                is_tosync_ended |->
                                    is_request_tosync_ended(entry)]]
    /\ UNCHANGED <<devvars, lockvars, schedvars, morevars,
                 statvars, queuevars, wirevars>>

\* clean_tosync_array: queue_error_response, the mutex of the request released
rel_clean_send_error(d) ==
    /\ rel.phase = "run"
    /\ rel.w[d].pc = "send_error"
    /\ \E k \in error_response_outcomes(rel.freed) :
        rel' = [rel EXCEPT !.resp[k] = @ + 1,
                           !.read_freed = @ \/ rel.freed,
                           !.w[d].pc = "clean_end"]
    /\ UNCHANGED <<devvars, lockvars, schedvars, morevars,
                 statvars, queuevars, wirevars>>

\* clean_tosync_array: the release response and the end of the request when
\* this entry was the last one, then sub_request_free
rel_clean_end(d) ==
    /\ rel.phase = "run"
    /\ rel.w[d].pc = "clean_end"
    /\ rel' = [rel EXCEPT
                 !.resp.release =
                     IF rel.w[d].is_tosync_ended /\ rel.rc = 0
                     THEN @ + 1 ELSE @,
                 !.read_freed = @ \/ (rel.w[d].is_tosync_ended /\ rel.freed),
                 !.freed = @ \/ rel.w[d].is_tosync_ended,
                 !.frees = IF rel.w[d].is_tosync_ended THEN @ + 1 ELSE @,
                 !.w[d].pc = "done"]
    /\ UNCHANGED <<devvars, lockvars, schedvars, morevars,
                 statvars, queuevars, wirevars>>

\* remove_canceled_sync, the part done with the mutex of the request
rel_remove_canceled_locked(d) ==
    /\ rel.phase = "run"
    /\ rel.w[d].pc = "idle"
    /\ rel.entry[d] = "TODO"
    /\ rel.rc # 0
    /\ LET entry == [rel.entry EXCEPT ![d] = "CANCEL"]
       IN  rel' = [rel EXCEPT
                     !.entry = entry,
                     !.w[d] = [IdleWorker EXCEPT
                                 !.pc = "cancel_end",
                                 !.is_tosync_ended =
                                     is_request_tosync_ended(entry)]]
    /\ UNCHANGED <<devvars, lockvars, schedvars, morevars,
                 statvars, queuevars, wirevars>>

\* remove_canceled_sync: sub_request_free when this entry was the last one
rel_remove_canceled_end(d) ==
    /\ rel.phase = "run"
    /\ rel.w[d].pc = "cancel_end"
    /\ rel' = [rel EXCEPT !.freed = @ \/ rel.w[d].is_tosync_ended,
                          !.frees = IF rel.w[d].is_tosync_ended THEN @ + 1
                                    ELSE @,
                          !.w[d].pc = "done"]
    /\ UNCHANGED <<devvars, lockvars, schedvars, morevars,
                 statvars, queuevars, wirevars>>

\* a release request with one medium to sync on each device of a non-empty
\* set of devices
InitRel ==
    \E on \in (SUBSET Devices) \ {{}} :
        rel = [phase |-> "run",
               entry |-> [d \in Devices |->
                            IF d \in on THEN "TODO" ELSE "NONE"],
               rc |-> 0,
               freed |-> FALSE, frees |-> 0, read_freed |-> FALSE,
               resp |-> [release |-> 0, err |-> 0, lost |-> 0],
               w |-> [d \in Devices |-> IdleWorker]]

ReleaseInit ==
    /\ InitDevIdle
    /\ InitLockIdle
    /\ InitSchedIdle
    /\ InitRel
    /\ InitStatIdle
    /\ InitQueueIdle
    /\ InitWireIdle
    /\ InitMoreIdle

NextRelease ==
    \/ \E d \in Devices : rel_clean_locked(d)
    \/ \E d \in Devices : rel_clean_send_error(d)
    \/ \E d \in Devices : rel_clean_end(d)
    \/ \E d \in Devices : rel_remove_canceled_locked(d)
    \/ \E d \in Devices : rel_remove_canceled_end(d)

SpecRelease == ReleaseInit /\ [][NextRelease]_vars

(* ---------------------------------------------------------------------- *)
(* C14                                                                    *)
(* ---------------------------------------------------------------------- *)

\* every medium of the release is resolved and every device is done with it
release_resolved ==
    /\ rel.phase = "run"
    /\ is_request_tosync_ended(rel.entry)
    /\ \A d \in Devices : rel.w[d].pc \in {"idle", "done"}

\* C14: a release request gets exactly one response once all its media are
\* resolved: a release response when no medium failed, one error response
\* otherwise; never both, never two of a kind, and nothing else
C14_ExactlyOneResponse ==
    /\ rel.phase = "run"
         => /\ rel.resp.release + rel.resp.err <= 1
            /\ rel.resp.lost = 0
    /\ release_resolved
         => IF \E d \in Devices : rel.entry[d] = "ERROR"
            THEN rel.resp.err = 1 /\ rel.resp.release = 0
            ELSE rel.resp.release = 1 /\ rel.resp.err = 0
(* ---------------------------------------------------------------------- *)
(* C15                                                                    *)
(* ---------------------------------------------------------------------- *)

\* C15: between two steps of its thread, a device whose operational status
\* is MOUNTED has a medium and a mount path, also while its thread ends
C15_MountedHasMediumAndPath ==
    \A d \in Devices :
        dev[d].ld_op_status = "MOUNTED"
            => /\ dev[d].ld_dss_media_info # NoMedium
               /\ dev[d].ld_mnt_path

(* ---------------------------------------------------------------------- *)
(* Statistics of a medium in the DSS: sync and format                      *)
(* ---------------------------------------------------------------------- *)

\* largest number of space units a file system reports
MaxSpace == 2

\* struct ldm_fs_space as filled by ldm_fs_df and ldm_fs_format
FsSpaces ==
    {sp \in [spc_used : 0..MaxSpace, spc_avail : 0..MaxSpace] :
        sp.spc_used + sp.spc_avail <= MaxSpace}

\* enum fs_status
FsStatus == {"BLANK", "EMPTY", "USED", "FULL"}

\* dss_media_set(DSS_SET_UPDATE, fields): only the flagged columns are written
dss_media_set(row, media_info, fields) ==
    [f \in DOMAIN row |-> IF f \in fields THEN media_info[f] ELSE row[f]]

\* lrs_dev_media_update up to its call of dss_media_set: the medium as left in
\* memory and the fields to write; df_ok tells whether ldm_fs_df succeeded
lrs_dev_media_update(media_info, media_rc, df_ok, space) ==
    LET first == media_info.fs_status = "EMPTY" /\ media_rc = 0
        m1 == IF first THEN [media_info EXCEPT !.fs_status = "USED"]
              ELSE media_info
        f1 == IF first THEN {"fs_status"} ELSE {}
        full == df_ok /\ space.spc_avail = 0
        m2 == IF ~df_ok
              THEN [m1 EXCEPT !.adm_status = "FAILED"]
              ELSE [m1 EXCEPT !.phys_spc_used = space.spc_used,
                              !.phys_spc_free = space.spc_avail,
                              !.fs_status = IF full THEN "FULL" ELSE @]
        f2 == IF ~df_ok THEN f1 \cup {"adm_status"}
              ELSE f1 \cup {"phys_spc_used", "phys_spc_free"}
                      \cup (IF full THEN {"fs_status"} ELSE {})
        m3 == IF media_rc # 0 THEN [m2 EXCEPT !.adm_status = "FAILED"] ELSE m2
        f3 == IF media_rc # 0 THEN f2 \cup {"adm_status"} ELSE f2
    IN  [media_info |-> m3, fields |-> f3,
         rc |-> IF media_rc # 0 THEN media_rc ELSE IF df_ok THEN 0 ELSE -EIO]

\* dev_format after a successful ldm_fs_format, up to its call of
\* dss_media_set
dev_format(media_info, space, unlock) ==
    LET m1 == [media_info EXCEPT !.phys_spc_used = space.spc_used,
                                 !.phys_spc_free = space.spc_avail,
                                 !.fs_status = "EMPTY"]
    IN  [media_info |-> IF unlock THEN [m1 EXCEPT !.adm_status = "UNLOCKED"]
                        ELSE m1,
         fields |-> {"phys_spc_used", "phys_spc_free", "fs_status"}
                        \cup (IF unlock THEN {"adm_status"} ELSE {})]

\* a device takes the medium: its media_info is the DSS row
stat_load ==
    /\ med.phase = "run"
    /\ ~med.held
    /\ med.row.adm_status # "FAILED"
    /\ med' = [med EXCEPT !.held = TRUE, !.media_info = med.row]
    /\ UNCHANGED <<devvars, lockvars, schedvars, morevars,
                 relvars, queuevars, wirevars>>

\* the device gives the medium back
stat_unload ==
    /\ med.phase = "run"
    /\ med.held
    /\ med' = [med EXCEPT !.held = FALSE]
    /\ UNCHANGED <<devvars, lockvars, schedvars, morevars,
                 relvars, queuevars, wirevars>>

\* dev_handle_format on the loaded medium: ldm_fs_format, then dev_format's
\* update of the medium and of its row; on an error the thread ends and gives
\* the medium up
stat_format(fmt_ok, space, unlock, dss_ok) ==
    /\ med.phase = "run"
    /\ med.held
    /\ LET f == dev_format(med.media_info, space, unlock)
       IN  med' =
             IF ~fmt_ok THEN [med EXCEPT !.last = "none", !.held = FALSE]
             ELSE IF ~dss_ok
                  THEN [med EXCEPT !.media_info = f.media_info,
                                   !.last = "none", !.held = FALSE]
                  ELSE [med EXCEPT
                          !.media_info = f.media_info,
                          !.row = dss_media_set(med.row, f.media_info,
                                                f.fields),
                          !.last = "format"]
    /\ UNCHANGED <<devvars, lockvars, schedvars, morevars,
                 relvars, queuevars, wirevars>>

\* dev_sync on the mounted medium: medium_sync gave media_rc, then
\* lrs_dev_media_update; on any error the device fails and gives the medium up
stat_sync(media_rc, df_ok, space, dss_ok) ==
    /\ med.phase = "run"
    /\ med.held
    /\ med.media_info.fs_status # "BLANK"
    /\ LET u == lrs_dev_media_update(med.media_info, media_rc, df_ok, space)
           failed == u.rc # 0 \/ ~dss_ok
       IN  med' =
             [med EXCEPT
                !.media_info = u.media_info,
                !.row = IF dss_ok
                        THEN dss_media_set(med.row, u.media_info, u.fields)
                        ELSE med.row,
                !.last = IF dss_ok THEN "sync" ELSE "none",
                !.held = ~failed]
    /\ UNCHANGED <<devvars, lockvars, schedvars, morevars,
                 relvars, queuevars, wirevars>>

\* a medium as registered: never formatted, whatever space its row records
InitStat ==
    \E sp \in FsSpaces :
        LET registered == [fs_status |-> "BLANK", adm_status |-> "UNLOCKED",
                           phys_spc_used |-> sp.spc_used,
                           phys_spc_free |-> sp.spc_avail]
        IN  med = [phase |-> "run", held |-> FALSE, last |-> "none",
                   row |-> registered, media_info |-> registered]

StatInit ==
    /\ InitDevIdle
    /\ InitLockIdle
    /\ InitSchedIdle
    /\ InitRelIdle
    /\ InitStat
    /\ InitQueueIdle
    /\ InitWireIdle
    /\ InitMoreIdle

NextStat ==
    \/ stat_load
    \/ stat_unload
    \/ \E fmt_ok \in BOOLEAN, sp \in FsSpaces, unlock \in BOOLEAN,
          dss_ok \in BOOLEAN : stat_format(fmt_ok, sp, unlock, dss_ok)
    \/ \E media_rc \in {0, -EIO}, df_ok \in BOOLEAN, sp \in FsSpaces,
          dss_ok \in BOOLEAN : stat_sync(media_rc, df_ok, sp, dss_ok)

SpecStats == StatInit /\ [][NextStat]_vars

(* ---------------------------------------------------------------------- *)
(* C16                                                                    *)
(* ---------------------------------------------------------------------- *)

\* C16: after every update of the statistics of a medium written to the DSS by
\* a device worker, after a sync and after a format, a row with no free
\* physical space has the file system status FULL
C16_NoFreeSpaceIsFull ==
    (med.phase = "run" /\ med.last \in {"sync", "format"})
        => (med.row.phys_spc_free = 0 => med.row.fs_status = "FULL")

\* after a sync of a medium whose row had free space the row is FULL when it
\* has none left: what lrs_dev_media_update alone keeps
sync_keeps_full ==
    [][(med.phase = "run" /\ med'.last = "sync" /\ med.row.phys_spc_free # 0
        /\ med' # med)
          => (med'.row.phys_spc_free = 0 => med'.row.fs_status = "FULL")]_vars

(* ---------------------------------------------------------------------- *)
(* C17                                                                    *)
(* ---------------------------------------------------------------------- *)

\* the DSS lock of a medium or of a device is held
dss_locked(x) == IF x \in Media THEN dss.mlock[x] ELSE dss.dlock[x]

\* the DSS row of a medium or of a device has the status FAILED
dss_failed(x) == IF x \in Media THEN dss.mfailed[x] ELSE dss.dfailed[x]

\* C17: a medium or a device that a worker decided to mark FAILED has its DSS
\* lock released only once FAILED is written in the DSS, and while the last
\* write of FAILED has failed the lock stays held
C17_LockKeptUntilFailedWritten ==
    /\ \A x \in hist.fail_decided : ~dss_locked(x) => dss_failed(x)
    /\ \A x \in hist.quarantined : dss_locked(x)

\* a medium is kept locked because FAILED could not be written, and the device
\* that failed with it is unlocked with FAILED written
C17_Witness ==
    /\ \E m \in Media : /\ m \in hist.quarantined
                        /\ dss.mlock[m]
                        /\ ~dss.mfailed[m]
    /\ \E d \in Devices : /\ d \in hist.fail_decided
                          /\ dss.dfailed[d]
                          /\ ~dss.dlock[d]

(* ---------------------------------------------------------------------- *)
(* The thread-safe queue (struct tsqueue of io.c)                          *)
(* ---------------------------------------------------------------------- *)

\* number of elements pushed in one run
MaxPush == 3

Threads == {"t1", "t2", "t3"}
NoThread == "none"

\* the NULL pointer, which is never pushed
NULL == 0

\* g_queue_push_head: the head of the queue is the first element
g_queue_push_head(queue, data) == <<data>> \o queue

g_queue_pop_head(queue) ==
    IF queue = <<>> THEN [queue |-> queue, data |-> NULL]
    ELSE [queue |-> Tail(queue), data |-> Head(queue)]

\* g_queue_pop_tail: NULL when the queue is empty
g_queue_pop_tail(queue) ==
    IF queue = <<>> THEN [queue |-> queue, data |-> NULL]
    ELSE [queue |-> SubSeq(queue, 1, Len(queue) - 1),
          data |-> queue[Len(queue)]]

g_queue_get_length(queue) == Len(queue)

\* the elements of a queue from its tail to its head
RECURSIVE Reverse(_)
Reverse(q) == IF q = <<>> THEN <<>> ELSE Append(Reverse(Tail(q)), Head(q))

\* a thread calls tsqueue_push with a new element; it has not locked yet
tsqueue_push_call(t) ==
    /\ tsq.phase = "run"
    /\ tsq.th[t].pc = "idle"
    /\ tsq.made < MaxPush
    /\ tsq' = [tsq EXCEPT !.made = @ + 1,
                          !.th[t] = [pc |-> "push_lock", data |-> tsq.made + 1]]
    /\ UNCHANGED <<devvars, lockvars, schedvars, morevars,
                 relvars, statvars, wirevars>>

\* a thread calls tsqueue_pop
tsqueue_pop_call(t) ==
    /\ tsq.phase = "run"
    /\ tsq.th[t].pc = "idle"
    /\ tsq' = [tsq EXCEPT !.th[t] = [pc |-> "pop_lock", data |-> NULL]]
    /\ UNCHANGED <<devvars, lockvars, schedvars, morevars,
                 relvars, statvars, wirevars>>

\* a thread calls tsqueue_get_length
tsqueue_get_length_call(t) ==
    /\ tsq.phase = "run"
    /\ tsq.th[t].pc = "idle"
    /\ tsq' = [tsq EXCEPT !.th[t] = [pc |-> "len_lock", data |-> NULL]]
    /\ UNCHANGED <<devvars, lockvars, schedvars, morevars,
                 relvars, statvars, wirevars>>

\* MUTEX_LOCK(&tsq->mutex) of the three functions; the history keeps the order
\* in which the pushes took the mutex
tsq_mutex_lock(t) ==
    /\ tsq.phase = "run"
    /\ tsq.th[t].pc \in {"push_lock", "pop_lock", "len_lock"}
    /\ tsq.mutex = NoThread
    /\ tsq' = [tsq EXCEPT
                 !.mutex = t,
                 !.locked_pushes = IF tsq.th[t].pc = "push_lock"
                                   THEN Append(@, tsq.th[t].data) ELSE @,
                 !.th[t].pc = CASE tsq.th[t].pc = "push_lock" -> "push"
                                [] tsq.th[t].pc = "pop_lock" -> "pop"
                                [] OTHER -> "len"]
    /\ UNCHANGED <<devvars, lockvars, schedvars, morevars,
                 relvars, statvars, wirevars>>

\* tsqueue_push under the mutex, and its MUTEX_UNLOCK
tsqueue_push(t) ==
    /\ tsq.phase = "run"
    /\ tsq.th[t].pc = "push"
    /\ tsq.mutex = t
    /\ tsq' = [tsq EXCEPT
                 !.queue = g_queue_push_head(@, tsq.th[t].data),
                 !.mutex = NoThread,
                 !.th[t] = [pc |-> "idle", data |-> NULL]]
    /\ UNCHANGED <<devvars, lockvars, schedvars, morevars,
                 relvars, statvars, wirevars>>

\* tsqueue_pop under the mutex, and its MUTEX_UNLOCK
tsqueue_pop(t) ==
    /\ tsq.phase = "run"
    /\ tsq.th[t].pc = "pop"
    /\ tsq.mutex = t
    /\ LET p == g_queue_pop_tail(tsq.queue)
       IN  tsq' = [tsq EXCEPT
                     !.queue = p.queue,
                     !.mutex = NoThread,
                     !.popped = IF p.data # NULL THEN Append(@, p.data) ELSE @,
                     !.th[t] = [pc |-> "pop_ret", data |-> p.data]]
    /\ UNCHANGED <<devvars, lockvars, schedvars, morevars,
                 relvars, statvars, wirevars>>

\* tsqueue_get_length under the mutex, and its MUTEX_UNLOCK
tsqueue_get_length(t) ==
    /\ tsq.phase = "run"
    /\ tsq.th[t].pc = "len"
    /\ tsq.mutex = t
    /\ tsq' = [tsq EXCEPT
                 !.mutex = NoThread,
                 !.th[t] = [pc |-> "len_ret",
                            data |-> g_queue_get_length(tsq.queue)]]
    /\ UNCHANGED <<devvars, lockvars, schedvars, morevars,
                 relvars, statvars, wirevars>>

\* tsqueue_pop or tsqueue_get_length returns its value to the caller
tsq_return(t) ==
    /\ tsq.phase = "run"
    /\ tsq.th[t].pc \in {"pop_ret", "len_ret"}
    /\ tsq' = [tsq EXCEPT !.th[t] = [pc |-> "idle", data |-> NULL]]
    /\ UNCHANGED <<devvars, lockvars, schedvars, morevars,
                 relvars, statvars, wirevars>>

\* tsqueue_init: an empty queue, a free mutex
InitQueue ==
    tsq = [phase |-> "run", queue |-> <<>>, mutex |-> NoThread, made |-> 0,
           locked_pushes |-> <<>>, popped |-> <<>>,
           th |-> [t \in Threads |-> [pc |-> "idle", data |-> NULL]]]

QueueInit ==
    /\ InitDevIdle
    /\ InitLockIdle
    /\ InitSchedIdle
    /\ InitRelIdle
    /\ InitStatIdle
    /\ InitQueue
    /\ InitWireIdle
    /\ InitMoreIdle

NextQueue ==
    \/ \E t \in Threads : tsqueue_push_call(t)
    \/ \E t \in Threads : tsqueue_pop_call(t)
    \/ \E t \in Threads : tsqueue_get_length_call(t)
    \/ \E t \in Threads : tsq_mutex_lock(t)
    \/ \E t \in Threads : tsqueue_push(t)
    \/ \E t \in Threads : tsqueue_pop(t)
    \/ \E t \in Threads : tsqueue_get_length(t)
    \/ \E t \in Threads : tsq_return(t)

SpecQueue == QueueInit /\ [][NextQueue]_vars

(* ---------------------------------------------------------------------- *)
(* C18                                                                    *)
(* ---------------------------------------------------------------------- *)

\* the pushes that took the mutex and have put their element in the queue
pushes_done ==
    SelectSeq(tsq.locked_pushes,
              LAMBDA x : \A t \in Threads :
                            ~(tsq.th[t].pc = "push" /\ tsq.th[t].data = x))

\* C18: the elements popped are, in order, the first elements of the pushes
\* in the order these took the mutex; the elements pushed are the elements
\* popped followed by the queue from tail to head (none lost, none twice); a
\* pop of an empty queue returns NULL and leaves the queue as it is; the
\* length returned is the number of pushes minus the number of successful
\* pops at the time it is read
C18_FifoUnderInterleaving ==
    /\ [](tsq.phase = "run" =>
            /\ pushes_done = tsq.popped \o Reverse(tsq.queue)
            /\ Len(tsq.popped) <= Len(tsq.locked_pushes)
            /\ tsq.popped = SubSeq(tsq.locked_pushes, 1, Len(tsq.popped)))
    /\ [][\A t \in Threads :
            /\ (tsq.phase = "run" /\ tsq.th[t].pc = "pop"
                /\ tsq'.th[t].pc = "pop_ret" /\ tsq.queue = <<>>)
                 => /\ tsq'.th[t].data = NULL
                    /\ tsq'.queue = tsq.queue
                    /\ tsq'.popped = tsq.popped
            /\ (tsq.phase = "run" /\ tsq.th[t].pc = "len"
                /\ tsq'.th[t].pc = "len_ret")
                 => tsq'.th[t].data = Len(pushes_done) - Len(tsq.popped)]_vars

\* every element pushed has been popped and a thread has then got NULL from
\* the empty queue, while another has read the length
C18_Witness ==
    /\ tsq.phase = "run"
    /\ Len(tsq.popped) = MaxPush
    /\ \E t \in Threads : tsq.th[t].pc = "pop_ret" /\ tsq.th[t].data = NULL
    /\ \E t \in Threads : tsq.th[t].pc = "len_ret"

(* ---------------------------------------------------------------------- *)
(* TLC wire framing (pho_srl_tlc_*_pack / _unpack) and recv_work           *)
(* ---------------------------------------------------------------------- *)

\* number of frames of one run (data[0..n_data-1] of recv_work)
NumFrames == 2

\* largest value of the first byte of a frame received from a peer
MaxVersion == 2

PHO_TLC_PROTOCOL_VERSION == 1
PHO_TLC_PROTOCOL_VERSION_SIZE == 1
ENOMEM == 12
EPROTONOSUPPORT == 93

Frames == 1..NumFrames

\* no message: the NULL pointer the unpack functions return
NoMsg == [null |-> TRUE]

\* pho_tlc_req_t after pho_tlc_request__init and after
\* pho_srl_tlc_request_ping_alloc
TlcRequests ==
    {[has_ping |-> FALSE, ping |-> FALSE], [has_ping |-> TRUE, ping |-> TRUE]}

\* pho_tlc_resp_t after pho_tlc_response__init and after
\* pho_srl_tlc_response_ping_alloc; ping: the ping sub-message is allocated
TlcResponses == {[ping |-> FALSE], [ping |-> TRUE]}

TlcMessages(kind) == IF kind = "req" THEN TlcRequests ELSE TlcResponses

\* protobuf encoding of a request: the optional bool field 1 as a varint
pho_tlc_request__pack(req) ==
    IF req.has_ping THEN <<8, IF req.ping THEN 1 ELSE 0>> ELSE <<>>

pho_tlc_request__get_packed_size(req) == IF req.has_ping THEN 2 ELSE 0

\* protobuf decoding of a request; NoMsg when the bytes are not a request
pho_tlc_request__unpack(bytes) ==
    IF bytes = <<>> THEN [has_ping |-> FALSE, ping |-> FALSE]
    ELSE IF Len(bytes) = 2 /\ bytes[1] = 8 /\ bytes[2] \in {0, 1}
    THEN [has_ping |-> TRUE, ping |-> bytes[2] = 1]
    ELSE NoMsg

\* protobuf encoding of a response: the empty ping sub-message as field 1,
\* length-delimited
pho_tlc_response__pack(resp) == IF resp.ping THEN <<10, 0>> ELSE <<>>

pho_tlc_response__get_packed_size(resp) == IF resp.ping THEN 2 ELSE 0

\* protobuf decoding of a response
pho_tlc_response__unpack(bytes) ==
    IF bytes = <<>> THEN [ping |-> FALSE]
    ELSE IF bytes = <<10, 0>> THEN [ping |-> TRUE]
    ELSE NoMsg

tlc_payload_from_start(buf) ==
    SubSeq(buf.buff, 1, buf.size - PHO_TLC_PROTOCOL_VERSION_SIZE)

\* the bytes handed to the decoder: buf->buff + PHO_TLC_PROTOCOL_VERSION_SIZE,
\* of length buf->size - PHO_TLC_PROTOCOL_VERSION_SIZE
tlc_payload(buf) ==
    SubSeq(buf.buff, PHO_TLC_PROTOCOL_VERSION_SIZE + 1, buf.size)

\* pho_srl_tlc_request_pack; alloc_ok: malloc succeeds
pho_srl_tlc_request_pack(req, alloc_ok) ==
    LET size == pho_tlc_request__get_packed_size(req)
                  + PHO_TLC_PROTOCOL_VERSION_SIZE
    IN  IF ~alloc_ok THEN [rc |-> -ENOMEM, buf |-> [buff |-> <<>>, size |-> size]]
        ELSE [rc |-> 0,
              buf |-> [buff |-> <<PHO_TLC_PROTOCOL_VERSION>>
                                  \o pho_tlc_request__pack(req),
                       size |-> size]]

\* pho_srl_tlc_response_pack
pho_srl_tlc_response_pack(resp, alloc_ok) ==
    LET size == pho_tlc_response__get_packed_size(resp)
                  + PHO_TLC_PROTOCOL_VERSION_SIZE
    IN  IF ~alloc_ok THEN [rc |-> -ENOMEM, buf |-> [buff |-> <<>>, size |-> size]]
        ELSE [rc |-> 0,
              buf |-> [buff |-> <<PHO_TLC_PROTOCOL_VERSION>>
                                  \o pho_tlc_response__pack(resp),
                       size |-> size]]

\* pho_srl_tlc_request_unpack: the pointer returned, whether the decoder was
\* called, and the error code logged; alloc_ok: the decoder can allocate
pho_srl_tlc_request_unpack(buf, alloc_ok) ==
    IF buf.buff[1] # PHO_TLC_PROTOCOL_VERSION
    THEN [req |-> NoMsg, decoded |-> FALSE, logged |-> -EPROTONOSUPPORT]
    ELSE LET req == IF alloc_ok THEN pho_tlc_request__unpack(tlc_payload(buf))
                    ELSE NoMsg
         IN  [req |-> req, decoded |-> TRUE,
              logged |-> IF req = NoMsg THEN -EINVAL ELSE 0]

\* pho_srl_tlc_response_unpack
pho_srl_tlc_response_unpack(buf, alloc_ok) ==
    IF buf.buff[1] # PHO_TLC_PROTOCOL_VERSION
    THEN [req |-> NoMsg, decoded |-> FALSE, logged |-> -EPROTONOSUPPORT]
    ELSE LET resp == IF alloc_ok
                     THEN pho_tlc_response__unpack(tlc_payload(buf))
                     ELSE NoMsg
         IN  [req |-> resp, decoded |-> TRUE,
              logged |-> IF resp = NoMsg THEN -EINVAL ELSE 0]

\* pho_tlc_request_is_ping
pho_tlc_request_is_ping(req) == req.has_ping /\ req.ping

IdleFrame ==
    [pc |-> "idle", kind |-> "none", msg |-> NoMsg,
     buf |-> [buff |-> <<>>, size |-> 0], sent |-> <<>>, rc |-> 0,
     alloc_ok |-> TRUE, out |-> NoMsg, decoded |-> FALSE, logged |-> 0,
     recv_rc |-> 0, answered |-> "none"]

\* a peer packs a request or a response
wire_pack(i, kind, msg, alloc_ok) ==
    /\ wire.phase = "run"
    /\ wire.f[i].pc = "idle"
    /\ LET p == IF kind = "req" THEN pho_srl_tlc_request_pack(msg, alloc_ok)
                ELSE pho_srl_tlc_response_pack(msg, alloc_ok)
       IN  wire' = [wire EXCEPT !.f[i] =
                      [IdleFrame EXCEPT
                         !.pc = IF p.rc = 0 THEN "packed" ELSE "pack_failed",
                         !.kind = kind, !.msg = msg, !.buf = p.buf,
                         !.sent = p.buf.buff, !.rc = p.rc]]
    /\ UNCHANGED <<devvars, lockvars, schedvars, morevars,
                 relvars, statvars, queuevars>>

\* the frame reaches the other side; its first byte is the version the sending
\* peer speaks
wire_receive(i, version) ==
    /\ wire.phase = "run"
    /\ wire.f[i].pc = "packed"
    /\ wire' = [wire EXCEPT !.f[i].pc = "received",
                            !.f[i].buf.buff[1] = version]
    /\ UNCHANGED <<devvars, lockvars, schedvars, morevars,
                 relvars, statvars, queuevars>>

\* the receiver unpacks the frame
wire_unpack(i, alloc_ok) ==
    /\ wire.phase = "run"
    /\ wire.f[i].pc = "received"
    /\ LET u == IF wire.f[i].kind = "req"
                THEN pho_srl_tlc_request_unpack(wire.f[i].buf, alloc_ok)
                ELSE pho_srl_tlc_response_unpack(wire.f[i].buf, alloc_ok)
       IN  wire' = [wire EXCEPT !.f[i].pc = "unpacked",
                                !.f[i].alloc_ok = alloc_ok,
                                !.f[i].out = u.req,
                                !.f[i].decoded = u.decoded,
                                !.f[i].logged = u.logged]
    /\ UNCHANGED <<devvars, lockvars, schedvars, morevars,
                 relvars, statvars, queuevars>>

\* recv_work on a request frame after its unpack: a NULL request is skipped, a
\* ping is answered; the loop goes on and recv_work returns 0
recv_work(i) ==
    /\ wire.phase = "run"
    /\ wire.f[i].pc = "unpacked"
    /\ wire.f[i].kind = "req"
    /\ wire' = [wire EXCEPT
                  !.f[i].pc = "done",
                  !.f[i].recv_rc = 0,
                  !.f[i].answered =
                      IF wire.f[i].out = NoMsg THEN "none"
                      ELSE IF pho_tlc_request_is_ping(wire.f[i].out)
                      THEN "ping" ELSE "none"]
    /\ UNCHANGED <<devvars, lockvars, schedvars, morevars,
                 relvars, statvars, queuevars>>

InitWire == wire = [phase |-> "run", f |-> [i \in Frames |-> IdleFrame]]

WireInit ==
    /\ InitDevIdle
    /\ InitLockIdle
    /\ InitSchedIdle
    /\ InitRelIdle
    /\ InitStatIdle
    /\ InitQueueIdle
    /\ InitWire
    /\ InitMoreIdle

NextWire ==
    \/ \E i \in Frames, kind \in {"req", "resp"}, alloc_ok \in BOOLEAN :
          \E msg \in TlcMessages(kind) : wire_pack(i, kind, msg, alloc_ok)
    \/ \E i \in Frames, version \in 0..MaxVersion : wire_receive(i, version)
    \/ \E i \in Frames, alloc_ok \in BOOLEAN : wire_unpack(i, alloc_ok)
    \/ \E i \in Frames : recv_work(i)

SpecWire == WireInit /\ [][NextWire]_vars

(* ---------------------------------------------------------------------- *)
(* C19                                                                    *)
(* ---------------------------------------------------------------------- *)

\* the serialized form of the message of a frame
serialized(f) ==
    IF f.kind = "req" THEN pho_tlc_request__pack(f.msg)
    ELSE pho_tlc_response__pack(f.msg)

\* C19: a packed request or response is the protocol version byte (1)
\* followed by the serialized message, of size the serialized size plus 1,
\* and unpacking the frame as packed gives back the message packed
C19_PackFramesAndRoundTrips ==
    wire.phase = "run" =>
      \A i \in Frames :
        LET f == wire.f[i]
        IN  /\ f.pc = "packed"
                 => /\ f.rc = 0
                    /\ f.buf.buff[1] = 1
                    /\ Tail(f.buf.buff) = serialized(f)
                    /\ f.buf.size = Len(serialized(f)) + 1
                    /\ f.buf.size = Len(f.buf.buff)
            /\ (f.pc \in {"unpacked", "done"} /\ f.buf.buff = f.sent
                /\ f.alloc_ok)
                 => f.out = f.msg

\* a ping request and a ping response have both made the round trip
C19_Witness ==
    /\ wire.phase = "run"
    /\ \E i, j \in Frames :
          /\ wire.f[i].kind = "req" /\ wire.f[j].kind = "resp"
          /\ wire.f[i].pc = "done" /\ wire.f[j].pc = "unpacked"
          /\ wire.f[i].msg.has_ping /\ wire.f[j].msg.ping
          /\ wire.f[i].buf.buff = wire.f[i].sent
          /\ wire.f[j].buf.buff = wire.f[j].sent
          /\ wire.f[i].out = wire.f[i].msg
          /\ wire.f[j].out = wire.f[j].msg

(* ---------------------------------------------------------------------- *)
(* C20                                                                    *)
(* ---------------------------------------------------------------------- *)

\* the frame was received with a first byte that is not the protocol version
wrong_version(f) ==
    /\ f.pc \in {"unpacked", "done"}
    /\ f.buf.buff[1] # PHO_TLC_PROTOCOL_VERSION

\* a frame of another version gives no message and its payload is not decoded
wrong_version_not_decoded ==
    wire.phase = "run" =>
      \A i \in Frames :
        wrong_version(wire.f[i])
            => wire.f[i].out = NoMsg /\ ~wire.f[i].decoded

\* C20: unpacking a frame whose first byte is not the protocol version gives
\* no message, does not decode the payload, and hands -EPROTONOSUPPORT to the
\* caller: recv_work gets it as its error
C20_WrongVersionReturnsError ==
    wire.phase = "run" =>
      \A i \in Frames :
        (wrong_version(wire.f[i]) /\ wire.f[i].pc = "done")
            => /\ wire.f[i].out = NoMsg
               /\ ~wire.f[i].decoded
               /\ wire.f[i].recv_rc = -EPROTONOSUPPORT

(* ---------------------------------------------------------------------- *)
(* C21                                                                    *)
(* ---------------------------------------------------------------------- *)

\* C21: whatever the interleaving of the devices sharing the container of a
\* release, the container is freed at most once, exactly once when every
\* medium is resolved and every device is done, and no device reads it or
\* queues a response built from it after it was freed
C21_FreedOnceNeverReadAfter ==
    rel.phase = "run" =>
        /\ rel.frees <= 1
        /\ release_resolved => rel.frees = 1
        /\ ~rel.read_freed

(* ---------------------------------------------------------------------- *)
(* A read or write allocation spread over several devices                 *)
(* ---------------------------------------------------------------------- *)

rwalloc_ended_at_first_done(media) == \E d \in Devices : media[d] = "DONE"

\* is_rwalloc_ended, on the status of the media of the allocation
is_rwalloc_ended(media) == \A d \in Devices : media[d] # "TODO"

\* rwalloc_cancel_DONE_devices: the media already DONE are cancelled
rwalloc_cancel_DONE_devices(media) ==
    [d \in Devices |-> IF media[d] = "DONE" THEN "CANCEL" ELSE media[d]]

requeued_if_write_or_alternate_and_not_on_medium(kind, failure_on_medium, alt) ==
    kind = "write" \/ (alt /\ ~failure_on_medium)

\* rwalloc_can_be_requeued, on the kind of the request, the failure_on_medium
\* flag of the sub-request and n_med_ids > n_required
can_be_requeued(kind, failure_on_medium, alt) ==
    \/ kind = "write"
    \/ ~failure_on_medium
    \/ alt

rwalloc_error_never_seen(a) == FALSE

\* locked_cancel_rwalloc_on_error: the request already has an error
rwalloc_has_error(a) == a.rc # 0

IdleAllocWorker ==
    [pc |-> "idle", ended |-> FALSE, rc |-> 0, failure_on_medium |-> FALSE,
     did |-> "none"]

\* locked_cancel_rwalloc_on_error once the request has an error: the medium
\* of device d is cancelled
locked_cancel_rwalloc_on_error(a, d) ==
    LET media == [a.media EXCEPT ![d] = "CANCEL"]
    IN  [a EXCEPT !.media = media,
                  !.at[d] = "gone",
                  !.w[d] = [IdleAllocWorker EXCEPT
                              !.ended = is_rwalloc_ended(media),
                              !.did = "cancel"]]

\* handle_rwalloc_sub_request_result under the mutex of the request, for the
\* sub-request of device d; fill_ok: fill_rwalloc_resp_container succeeds
rwalloc_sub_request_result(a0, d, sub_request_rc, failure_on_medium, fill_ok) ==
    With(a0, LAMBDA al0 :
    LET rc == IF sub_request_rc = 0 /\ ~fill_ok THEN -ENOMEM
              ELSE sub_request_rc
        done == [al0.media EXCEPT ![d] = "DONE"]
        fatal == rwalloc_cancel_DONE_devices(
                     [al0.media EXCEPT ![d] = "ERROR"])
    IN  IF rwalloc_has_error(al0)
        THEN locked_cancel_rwalloc_on_error(al0, d)
        ELSE IF rc = 0
        THEN [al0 EXCEPT
                !.media = done,
                !.at[d] = "gone",
                !.respc = IF is_rwalloc_ended(done) THEN @ + 1 ELSE @,
                !.w[d] = [IdleAllocWorker EXCEPT
                            !.ended = is_rwalloc_ended(done),
                            !.did = "done"]]
        ELSE IF can_be_requeued(al0.kind, failure_on_medium, al0.alt)
        THEN [al0 EXCEPT
                !.at[d] = "retry",
                !.w[d] = [IdleAllocWorker EXCEPT
                            !.rc = rc,
                            !.failure_on_medium = failure_on_medium,
                            !.did = "requeue"]]
        ELSE [al0 EXCEPT
                !.rc = rc,
                !.media = fatal,
                !.at[d] = "gone",
                !.err = @ + 1,
                !.w[d] = [IdleAllocWorker EXCEPT
                            !.ended = is_rwalloc_ended(fatal),
                            !.rc = rc,
                            !.failure_on_medium = failure_on_medium,
                            !.did = "fatal"]])

\* handle_rwalloc_sub_request_result, the part done with the mutex of the
\* request
al_result_locked(d, sub_request_rc, failure_on_medium, fill_ok) ==
    /\ al.phase = "run"
    /\ al.w[d].pc = "idle"
    /\ al.at[d] = "dev"
    /\ LET a == rwalloc_sub_request_result(al, d, sub_request_rc,
                                           failure_on_medium, fill_ok)
       IN  al' = [a EXCEPT !.w[d].pc = "result_end",
                           !.read_freed = @ \/ al.freed]
    /\ UNCHANGED <<devvars, lockvars, schedvars, oldauxvars, flushvars, latevars>>

\* handle_rwalloc_sub_request_result after the mutex: sched_req_free when the
\* request is ended
al_result_end(d) ==
    /\ al.phase = "run"
    /\ al.w[d].pc = "result_end"
    /\ al' = [al EXCEPT !.freed = @ \/ al.w[d].ended,
                        !.frees = IF al.w[d].ended THEN @ + 1 ELSE @,
                        !.w[d].pc = "idle"]
    /\ UNCHANGED <<devvars, lockvars, schedvars, oldauxvars, flushvars, latevars>>

\* cancel_subrequest_on_error on the pending sub-request of device d, the
\* part done with the mutex of the request
al_cancel_locked(d) ==
    /\ al.phase = "run"
    /\ al.w[d].pc = "idle"
    /\ al.at[d] = "dev"
    /\ rwalloc_has_error(al)
    /\ al' = [locked_cancel_rwalloc_on_error(al, d) EXCEPT
                !.w[d].pc = "cancel_end",
                !.read_freed = @ \/ al.freed]
    /\ UNCHANGED <<devvars, lockvars, schedvars, oldauxvars, flushvars, latevars>>

\* cancel_subrequest_on_error after the mutex: sched_req_free when the request
\* is ended
al_cancel_end(d) ==
    /\ al.phase = "run"
    /\ al.w[d].pc = "cancel_end"
    /\ al' = [al EXCEPT !.freed = @ \/ al.w[d].ended,
                        !.frees = IF al.w[d].ended THEN @ + 1 ELSE @,
                        !.w[d].pc = "idle"]
    /\ UNCHANGED <<devvars, lockvars, schedvars, oldauxvars, flushvars, latevars>>

\* the scheduler gives a sub-request of its retry queue to a device again
al_retry(d) ==
    /\ al.phase = "run"
    /\ al.w[d].pc = "idle"
    /\ al.at[d] = "retry"
    /\ al' = [al EXCEPT !.at[d] = "dev", !.w[d] = IdleAllocWorker]
    /\ UNCHANGED <<devvars, lockvars, schedvars, oldauxvars, flushvars, latevars>>

\* a read or write allocation with one sub-request on each device of a
\* non-empty set of devices; alt: the read has more candidates than required
InitAlloc ==
    \E kind \in {"read", "write"}, alt \in BOOLEAN,
       on \in (SUBSET Devices) \ {{}} :
        /\ kind = "write" => ~alt
        /\ al = [phase |-> "run", kind |-> kind, alt |-> alt, rc |-> 0,
                 media |-> [d \in Devices |->
                              IF d \in on THEN "TODO" ELSE "NONE"],
                 at |-> [d \in Devices |->
                           IF d \in on THEN "dev" ELSE "none"],
                 respc |-> 0, err |-> 0,
                 freed |-> FALSE, frees |-> 0, read_freed |-> FALSE,
                 w |-> [d \in Devices |-> IdleAllocWorker]]

AllocInit ==
    /\ InitDevIdle
    /\ InitLockIdle
    /\ InitSchedIdle
    /\ InitRelIdle
    /\ InitStatIdle
    /\ InitQueueIdle
    /\ InitWireIdle
    /\ InitFlushIdle
    /\ InitLateIdle
    /\ InitAlloc

NextAlloc ==
    \/ \E d \in Devices, sub_request_rc \in {0, -EIO},
          failure_on_medium \in BOOLEAN, fill_ok \in BOOLEAN :
            al_result_locked(d, sub_request_rc, failure_on_medium, fill_ok)
    \/ \E d \in Devices : al_result_end(d)
    \/ \E d \in Devices : al_cancel_locked(d)
    \/ \E d \in Devices : al_cancel_end(d)
    \/ \E d \in Devices : al_retry(d)

SpecAlloc == AllocInit /\ [][NextAlloc]_vars

(* ---------------------------------------------------------------------- *)
(* C22                                                                    *)
(* ---------------------------------------------------------------------- *)

\* the release side: the error code of a release is written in the locked
\* part of clean_tosync_array only, and only while it is 0
release_rc_first_error_wins ==
    [][(rel.phase = "run" /\ rel'.rc # rel.rc)
         => /\ rel.rc = 0
            /\ \E d \in Devices : /\ rel.w[d].pc = "idle"
                                  /\ rel'.w[d].pc = "send_error"]_vars

\* C22: the error code of an allocation is written only in the part of
\* handle_rwalloc_sub_request_result that holds the mutex of the request, and
\* only while it is 0: once set, no later sub-request, failing, succeeding or
\* cancelled, changes it
C22_FirstErrorWins ==
    [][(al.phase = "run" /\ al'.rc # al.rc)
         => /\ al.rc = 0
            /\ \E d \in Devices : /\ al.w[d].pc = "idle"
                                  /\ al'.w[d].pc = "result_end"
                                  /\ al'.w[d].did = "fatal"
                                  /\ al'.rc = al'.w[d].rc]_vars

\* an allocation has an error and a later sub-request of another device was
\* handled after it
C22_Witness ==
    /\ al.phase = "run"
    /\ al.rc # 0
    /\ \E d, e \in Devices :
          /\ d # e
          /\ al.w[d].did = "fatal"
          /\ al.w[e].did = "cancel"

(* ---------------------------------------------------------------------- *)
(* C23                                                                    *)
(* ---------------------------------------------------------------------- *)

\* C23: the aggregated response of an allocation is pushed at most once, by
\* the worker whose sub-request is the last to complete, when every
\* sub-request is DONE and the request has no error; never while a
\* sub-request is TODO, never when an error response was queued
C23_AggregatedResponseOnceWhenAllDone ==
    /\ [](al.phase = "run" =>
            /\ al.respc <= 1
            /\ al.respc = 1
                 => /\ \A d \in Devices : al.media[d] \in {"DONE", "NONE"}
                    /\ al.rc = 0
                    /\ al.err = 0)
    /\ [][(al.phase = "run" /\ al'.respc # al.respc)
            => \E d \in Devices :
                  /\ al.w[d].pc = "idle"
                  /\ al.media[d] = "TODO"
                  /\ al'.w[d].pc = "result_end"
                  /\ al'.w[d].did = "done"
                  /\ al'.w[d].ended
                  /\ \A e \in Devices \ {d} : al.media[e] \in {"DONE", "NONE"}
          ]_vars

\* every sub-request is DONE and the response was pushed once, by the last
\* one; the container was freed once
C23_Witness ==
    /\ al.phase = "run"
    /\ al.respc = 1
    /\ \A d \in Devices : al.media[d] = "DONE"
    /\ al.frees = 1

(* ---------------------------------------------------------------------- *)
(* C24                                                                    *)
(* ---------------------------------------------------------------------- *)

\* device d handled the failure of its sub-request in this step, on a request
\* which had no error
al_failure_handled(d) ==
    /\ al.phase = "run"
    /\ al.w[d].pc = "idle"
    /\ al'.w[d].pc = "result_end"
    /\ al'.w[d].did \in {"requeue", "fatal"}

\* the sub-request of d was pushed to the retry queue and nothing else
al_requeued(d) ==
    /\ al'.w[d].did = "requeue"
    /\ al'.at[d] = "retry"
    /\ al'.media = al.media
    /\ al'.rc = 0
    /\ al'.err = al.err
    /\ al'.respc = al.respc

\* the failure was fatal: error code of the request set, one error response,
\* DONE siblings cancelled
al_fatal(d) ==
    /\ al'.w[d].did = "fatal"
    /\ al'.at[d] = "gone"
    /\ al'.rc = al'.w[d].rc
    /\ al'.rc # 0
    /\ al'.err = al.err + 1
    /\ al'.respc = al.respc
    /\ al'.media[d] = "ERROR"
    /\ \A e \in Devices \ {d} :
          al'.media[e] = IF al.media[e] = "DONE" THEN "CANCEL"
                         ELSE al.media[e]

\* C24 (amended): a failed sub-request is pushed to the retry queue exactly
\* when the request is a write, or the failure is not on the medium, or the
\* read has more candidate media than required; in every other case the
\* failure is fatal: the error code of the request is set, one error response
\* is queued and the DONE siblings are cancelled
C24_RequeuedUnlessMediumFailureWithoutAlternate ==
    [][\A d \in Devices :
          al_failure_handled(d)
            => IF \/ al.kind = "write"
                  \/ ~al'.w[d].failure_on_medium
                  \/ al.alt
               THEN al_requeued(d)
               ELSE al_fatal(d)
      ]_vars

\* C24 as stated: a failed read is requeued only if alternates remain and the
\* failure was not on the medium
C24_ReadRequeuedOnlyWithAlternateAndNotOnMedium ==
    [][\A d \in Devices :
          al_failure_handled(d)
            => IF \/ al.kind = "write"
                  \/ (al.alt /\ ~al'.w[d].failure_on_medium)
               THEN al_requeued(d)
               ELSE al_fatal(d)
      ]_vars

\* a read with alternates was requeued after a failure on its medium, or a
\* read without alternate after a failure which was not on the medium
C24_Witness ==
    /\ al.phase = "run"
    /\ al.kind = "read"
    /\ \E d \in Devices :
          /\ al.w[d].pc = "result_end"
          /\ al.w[d].did = "requeue"
          /\ al.at[d] = "retry"
          /\ al.w[d].failure_on_medium = al.alt

(* ---------------------------------------------------------------------- *)
(* The pending releases of one device and their flush, at the granularity *)
(* of the device mutex: the device thread on one side, the scheduler      *)
(* thread submitting releases on the other                                *)
(* ---------------------------------------------------------------------- *)

\* number of release entries submitted to the device
NumRel == 2

\* the clock stops at MaxTime; a release is received before that
MaxTime == 3

\* handle->sync_time_ms, in clock ticks
sync_time_ms == 1

\* handle->sync_wsize_kb
sync_wsize_kb == 2

\* largest written size of one release
MaxWritten == 2

\* number of calls that may fail in one run
MaxSyncFaults == 1

Rels == 1..NumRel

\* a tosync_medium of a release request, before its release is received
IdleRel ==
    [sub |-> "none", status |-> "NONE", client_rc |-> 0, written_size |-> 0,
     received_at |-> 0, rel_rc |-> 0, ack |-> 0, err |-> 0,
     ready_at_push |-> FALSE]

\* no flush so far
NoFlush ==
    [client_err |-> FALSE, called |-> FALSE, media_rc |-> 0, dss_ok |-> FALSE,
     at_sync |-> {}, resolved |-> {}, nb_obj |-> 0, logc_spc_used |-> 0,
     cleaned |-> FALSE, under_mutex |-> {}]

\* what an iteration of the loop saw, before its check_needs_sync
NoIter ==
    [checked |-> FALSE, len |-> 0, past |-> FALSE, size |-> 0,
     stopping |-> FALSE, shutdown |-> FALSE, client_err |-> FALSE,
     tested |-> FALSE, io |-> FALSE, flushed |-> FALSE]

fl_release_ready(f) == f.state # "STOPPED"

\* update_oldest_tosync
update_oldest_tosync(oldest_to_update, candidate) ==
    IF oldest_to_update = 0 \/ candidate <= oldest_to_update
    THEN candidate ELSE oldest_to_update

RECURSIVE oldest_of(_, _, _)
\* the loop of update_queue_oldest_tosync over the entries arr
oldest_of(f, arr, oldest) ==
    IF arr = <<>> THEN oldest
    ELSE oldest_of(f, Tail(arr),
                   update_oldest_tosync(oldest, f.ent[Head(arr)].received_at))

\* update_queue_oldest_tosync
update_queue_oldest_tosync(f) ==
    IF Len(f.tosync_array) = 0 THEN [f EXCEPT !.oldest_tosync = 0]
    ELSE [f EXCEPT !.oldest_tosync = oldest_of(f, f.tosync_array, @)]

\* is_past(add_timespec(oldest_tosync, sync_time_ms))
is_past(f) == f.oldest_tosync + sync_time_ms <= f.now

needs_sync_on_count_only(f) ==
    Len(f.tosync_array) > 0 /\ Len(f.tosync_array) >= sync_nb_req

\* check_needs_sync: the value given to ld_needs_sync
needs_sync_value(f) ==
    LET len == Len(f.tosync_array)
    IN  \/ /\ len > 0
           /\ \/ len >= sync_nb_req
              \/ is_past(f)
              \/ f.tosync_size >= sync_wsize_kb
        \/ (~f.running /\ len > 0)
        \/ (f.state = "STOPPING" /\ len > 0)
        \/ f.last_client_rc # 0

RECURSIVE fl_clean_entries(_, _, _)
\* the loop of clean_tosync_array over the entries arr, last entry first; each
\* request is ended once this entry is resolved
fl_clean_entries(f, arr, rc) ==
    IF arr = <<>> THEN f
    ELSE LET e == arr[Len(arr)]
             first_error == rc # 0 /\ f.ent[e].rel_rc = 0
             new_rc == IF first_error THEN rc ELSE f.ent[e].rel_rc
             g == [f EXCEPT
                     !.ent[e].status = IF rc = 0 THEN "DONE" ELSE "ERROR",
                     !.ent[e].rel_rc = new_rc,
                     !.ent[e].err = IF first_error THEN @ + 1 ELSE @,
                     !.ent[e].ack = IF new_rc = 0 THEN @ + 1 ELSE @]
         IN  fl_clean_entries(g, SubSeq(arr, 1, Len(arr) - 1), rc)

\* clean_tosync_array on the device, under its mutex
fl_clean_tosync_array(f, rc) ==
    [fl_clean_entries(f, f.tosync_array, rc) EXCEPT
        !.tosync_array = <<>>,
        !.tosync_size = 0,
        !.oldest_tosync = 0,
        !.needs_sync = FALSE]

media_update_counts_whatever_rc(row, size_written, media_rc, nb_new_obj, df_ok, dss_ok) ==
    IF ~dss_ok THEN row
    ELSE [row EXCEPT
            !.adm_failed = @ \/ ~df_ok \/ media_rc # 0,
            !.nb_obj = @ + nb_new_obj,
            !.logc_spc_used = @ + size_written]

\* lrs_dev_media_update, the statistics of the flush: the row of the medium in
\* the DSS after dss_media_set; df_ok: ldm_fs_df succeeds, dss_ok: dss_media_set
\* succeeds
media_update_counts(row, size_written, media_rc, nb_new_obj, df_ok, dss_ok) ==
    IF ~dss_ok THEN row
    ELSE [row EXCEPT
            !.adm_failed = @ \/ ~df_ok \/ media_rc # 0,
            !.nb_obj = IF media_rc = 0 THEN @ + nb_new_obj ELSE @,
            !.logc_spc_used = IF media_rc = 0 THEN @ + size_written ELSE @]

\* the rc of lrs_dev_media_update
media_update_rc(df_ok, dss_ok) == IF df_ok /\ dss_ok THEN 0 ELSE -EIO

RECURSIVE SumWritten(_, _)
\* the written sizes of the entries of a set
SumWritten(f, set) ==
    IF set = {} THEN 0
    ELSE LET e == CHOOSE x \in set : TRUE
         IN  f.ent[e].written_size + SumWritten(f, set \ {e})

\* lrs_dev_thread, head of the loop: remove_canceled_sync
fl_remove_canceled ==
    /\ fl.phase = "run"
    /\ fl.pc = "loop"
    /\ LET arr == fl.tosync_array
           gone == {e \in SeqToSet(arr) : fl.ent[e].rel_rc # 0}
           kept == SelectSeq(arr, LAMBDA e : e \notin gone)
           f1 == [fl EXCEPT
                    !.tosync_array = kept,
                    !.tosync_size = @ - SumWritten(fl, gone),
                    !.ent = [e \in Rels |->
                               IF e \in gone
                               THEN [fl.ent[e] EXCEPT !.status = "CANCEL"]
                               ELSE fl.ent[e]]]
           f2 == IF gone # {} THEN update_queue_oldest_tosync(f1) ELSE f1
       IN  fl' = [f2 EXCEPT !.pc = "check", !.iter = NoIter,
                            !.flush = NoFlush]
    /\ UNCHANGED <<devvars, lockvars, schedvars, oldauxvars, allocvars, latevars>>

\* lrs_dev_thread: check_needs_sync unless ld_needs_sync is already set; the
\* iteration records what the device held under the mutex
fl_check_needs_sync ==
    /\ fl.phase = "run"
    /\ fl.pc = "check"
    /\ fl' = [fl EXCEPT
                !.needs_sync = IF @ THEN @ ELSE needs_sync_value(fl),
                !.iter = [NoIter EXCEPT
                            !.checked = TRUE,
                            !.len = Len(fl.tosync_array),
                            !.past =
                                \E e \in SeqToSet(fl.tosync_array) :
                                    fl.ent[e].received_at + sync_time_ms
                                        <= fl.now,
                            !.size = SumWritten(fl, SeqToSet(fl.tosync_array)),
                            !.stopping = fl.state = "STOPPING",
                            !.shutdown = ~fl.running,
                            !.client_err = fl.last_client_rc # 0],
                !.pc = "test"]
    /\ UNCHANGED <<devvars, lockvars, schedvars, oldauxvars, allocvars, latevars>>

\* lrs_dev_thread: the switch to stopped, then the test of ld_ongoing_io and
\* of ld_needs_sync
fl_stop_test ==
    /\ fl.phase = "run"
    /\ fl.pc = "test"
    /\ LET stop == /\ fl.state = "STOPPING"
                   /\ ~fl.ongoing_io
                   /\ ~fl.sub_request
                   /\ Len(fl.tosync_array) = 0
       IN  fl' = [fl EXCEPT
                    !.state = IF stop THEN "STOPPED" ELSE @,
                    !.iter.tested = TRUE,
                    !.iter.io = fl.ongoing_io,
                    !.pc = IF fl.ongoing_io THEN "wait"
                           ELSE IF fl.needs_sync THEN "sync"
                           ELSE "handle"]
    /\ UNCHANGED <<devvars, lockvars, schedvars, oldauxvars, allocvars, latevars>>

\* the blocking calls dev_sync makes between MUTEX_LOCK(&dev->ld_mutex) and
\* MUTEX_UNLOCK(&dev->ld_mutex): medium_sync when the last client release
\* carried no error, then ldm_fs_df and dss_media_set in lrs_dev_media_update
dev_sync_calls_under_mutex(called) ==
    (IF called THEN {"medium_sync"} ELSE {}) \cup {"ldm_fs_df", "dss_media_set"}

\* dev_sync, the part done with the mutex of the device: medium_sync unless
\* the last client release carried an error, then lrs_dev_media_update
fl_dev_sync_locked(sync_ok, df_ok, dss_ok) ==
    /\ fl.phase = "run"
    /\ fl.pc = "sync"
    /\ LET called == fl.last_client_rc = 0
           n == (IF called THEN failed_calls(sync_ok) ELSE 0)
                  + failed_calls(df_ok) + failed_calls(dss_ok)
           rc == IF called THEN (IF sync_ok THEN 0 ELSE -EIO)
                 ELSE fl.last_client_rc
           rc2 == media_update_rc(df_ok, dss_ok)
       IN  /\ ~called => sync_ok
           /\ fl.faults + n <= MaxSyncFaults
           /\ fl' = [fl EXCEPT
                       !.faults = @ + n,
                       !.dss = media_update_counts(
                                   @, fl.tosync_size, rc,
                                   Len(fl.tosync_array), df_ok, dss_ok),
                       !.last_client_rc = 0,
                       !.rc = IF rc # 0 THEN rc ELSE rc2,
                       !.sync_calls = IF called THEN @ + 1 ELSE @,
                       !.iter.flushed = TRUE,
                       !.flush = [NoFlush EXCEPT
                                    !.client_err = ~called,
                                    !.called = called,
                                    !.media_rc = rc,
                                    !.dss_ok = dss_ok,
                                    !.at_sync = SeqToSet(fl.tosync_array),
                                    !.nb_obj = fl.dss.nb_obj,
                                    !.logc_spc_used = fl.dss.logc_spc_used,
                                    !.under_mutex =
                                        dev_sync_calls_under_mutex(called)],
                       !.pc = "clean"]
    /\ UNCHANGED <<devvars, lockvars, schedvars, oldauxvars, allocvars, latevars>>

\* dev_sync after the mutex: clean_tosync_array with the rc of the sync, and
\* the thread ends when the rc is not 0
fl_dev_sync_clean ==
    /\ fl.phase = "run"
    /\ fl.pc = "clean"
    /\ fl' = [fl_clean_tosync_array(fl, fl.rc) EXCEPT
                !.flush.resolved = SeqToSet(fl.tosync_array),
                !.flush.cleaned = TRUE,
                !.rc = 0,
                !.status = IF fl.rc # 0 THEN fl.rc ELSE @,
                !.pc = IF fl.rc # 0 THEN "end" ELSE "handle"]
    /\ UNCHANGED <<devvars, lockvars, schedvars, oldauxvars, allocvars, latevars>>

\* lrs_dev_thread: the pending sub-request; ok: it is served and its I/O
\* starts, otherwise its handler meets a fatal error
fl_handle(ok) ==
    /\ fl.phase = "run"
    /\ fl.pc = "handle"
    /\ LET n == IF fl.sub_request THEN failed_calls(ok) ELSE 0
           fatal == fl.sub_request /\ ~ok
       IN  /\ ~fl.sub_request => ok
           /\ fl.faults + n <= MaxSyncFaults
           /\ fl' = [fl EXCEPT
                       !.faults = @ + n,
                       !.ongoing_io = IF fl.sub_request /\ ok THEN TRUE ELSE @,
                       !.sub_request = FALSE,
                       !.status = IF fatal THEN -EIO ELSE @,
                       !.pc = IF fatal \/ fl.state = "STOPPED" THEN "end"
                              ELSE "wait"]
    /\ UNCHANGED <<devvars, lockvars, schedvars, oldauxvars, allocvars, latevars>>

\* lrs_dev_thread: dev_wait_for_signal, which returns at a signal or at its
\* timeout; a negative rc is fatal
fl_wait(ok) ==
    /\ fl.phase = "run"
    /\ fl.pc = "wait"
    /\ fl.faults + failed_calls(ok) <= MaxSyncFaults
    /\ fl' = [fl EXCEPT
                !.faults = @ + failed_calls(ok),
                !.status = IF ok THEN @ ELSE -EIO,
                !.iter = NoIter,
                !.pc = IF ok THEN "loop" ELSE "end"]
    /\ UNCHANGED <<devvars, lockvars, schedvars, oldauxvars, allocvars, latevars>>

\* dev_thread_end up to dev_thread_end_device: the thread is stopping, the
\* mounted medium is unmounted (dev_umount cleans the pending releases with
\* the rc of the umount) or, on error, failed and given up
fl_thread_end(um_ok) ==
    /\ fl.phase = "run"
    /\ fl.pc = "end"
    /\ LET n == IF fl.status = 0 THEN failed_calls(um_ok) ELSE 0
           f1 == [fl EXCEPT
                    !.faults = @ + n,
                    !.state = IF @ = "RUNNING" THEN "STOPPING" ELSE @]
           rc == IF um_ok THEN 0 ELSE -EIO
           f2 == IF fl.status = 0
                 THEN [fl_clean_tosync_array(f1, rc) EXCEPT !.status = rc]
                 ELSE f1
       IN  /\ fl.status # 0 => um_ok
           /\ fl.faults + n <= MaxSyncFaults
           /\ fl' = [f2 EXCEPT
                       !.dss.adm_failed = @ \/ f2.status # 0,
                       !.pc = "end_device"]
    /\ UNCHANGED <<devvars, lockvars, schedvars, oldauxvars, allocvars, latevars>>

\* dev_thread_end_device, then pthread_exit: the lock of the device is
\* released, or on error the pending releases are cleaned with the status of
\* the thread and the device is failed
fl_thread_end_device(rel_ok) ==
    /\ fl.phase = "run"
    /\ fl.pc = "end_device"
    /\ LET n == IF fl.status = 0 THEN failed_calls(rel_ok) ELSE 0
           status == IF fl.status = 0 /\ ~rel_ok THEN -EIO ELSE fl.status
           f1 == [fl EXCEPT !.faults = @ + n, !.status = status]
           f2 == IF status # 0
                 THEN [fl_clean_tosync_array(f1, status) EXCEPT
                         !.op_failed = TRUE]
                 ELSE f1
       IN  /\ fl.status # 0 => rel_ok
           /\ fl.faults + n <= MaxSyncFaults
           /\ fl' = [f2 EXCEPT !.ongoing_io = FALSE, !.pc = "exited"]
    /\ UNCHANGED <<devvars, lockvars, schedvars, oldauxvars, allocvars, latevars>>

\* the clock
fl_tick ==
    /\ fl.phase = "run"
    /\ fl.now < MaxTime
    /\ fl' = [fl EXCEPT !.now = @ + 1]
    /\ UNCHANGED <<devvars, lockvars, schedvars, oldauxvars, allocvars, latevars>>

\* the scheduler receives a release and finds the device release-ready
\* (dev_is_release_ready, read without the mutex of the device)
fl_release_check(e, client_rc, written_size) ==
    /\ fl.phase = "run"
    /\ fl.ent[e].sub = "none"
    /\ \A x \in Rels : x < e => fl.ent[x].sub # "none"
    /\ fl.now < MaxTime
    /\ fl_release_ready(fl)
    /\ fl' = [fl EXCEPT !.ent[e].sub = "checked",
                        !.ent[e].client_rc = client_rc,
                        !.ent[e].written_size = written_size,
                        !.ent[e].received_at = fl.now]
    /\ UNCHANGED <<devvars, lockvars, schedvars, oldauxvars, allocvars, latevars>>

\* push_new_sync_to_device, under the mutex of the device
fl_push_new_sync_to_device(e) ==
    /\ fl.phase = "run"
    /\ fl.ent[e].sub = "checked"
    /\ fl' = [fl EXCEPT
                !.last_client_rc =
                    IF fl.ent[e].client_rc # 0 THEN fl.ent[e].client_rc ELSE @,
                !.tosync_array = Append(@, e),
                !.tosync_size = @ + fl.ent[e].written_size,
                !.oldest_tosync =
                    update_oldest_tosync(@, fl.ent[e].received_at),
                !.ent[e].sub = "pushed",
                !.ent[e].status = "TODO",
                !.ent[e].ready_at_push = fl_release_ready(fl)]
    /\ UNCHANGED <<devvars, lockvars, schedvars, oldauxvars, allocvars, latevars>>

\* the scheduler ends the I/O of the device when its client releases the
\* medium
fl_io_end ==
    /\ fl.phase = "run"
    /\ fl.ongoing_io
    /\ fl.pc # "exited"
    /\ fl' = [fl EXCEPT !.ongoing_io = FALSE]
    /\ UNCHANGED <<devvars, lockvars, schedvars, oldauxvars, allocvars, latevars>>

\* the scheduler gives a sub-request to the device (dev_is_sched_ready)
fl_sched_give ==
    /\ fl.phase = "run"
    /\ fl.state = "RUNNING"
    /\ ~fl.ongoing_io
    /\ ~fl.needs_sync
    /\ ~fl.sub_request
    /\ ~fl.op_failed
    /\ fl' = [fl EXCEPT !.sub_request = TRUE]
    /\ UNCHANGED <<devvars, lockvars, schedvars, oldauxvars, allocvars, latevars>>

\* another device of the same release request fails: the request gets its
\* error and its error response there
fl_peer_error(e) ==
    /\ fl.phase = "run"
    /\ fl.ent[e].status = "TODO"
    /\ fl.ent[e].rel_rc = 0
    /\ fl.faults < MaxSyncFaults
    /\ fl' = [fl EXCEPT !.faults = @ + 1,
                        !.ent[e].rel_rc = -EIO,
                        !.ent[e].err = @ + 1]
    /\ UNCHANGED <<devvars, lockvars, schedvars, oldauxvars, allocvars, latevars>>

\* the daemon stops: running is cleared and the thread is told to stop
fl_stop ==
    /\ fl.phase = "run"
    /\ fl.running
    /\ fl' = [fl EXCEPT !.running = FALSE,
                        !.state = IF @ = "RUNNING" THEN "STOPPING" ELSE @]
    /\ UNCHANGED <<devvars, lockvars, schedvars, oldauxvars, allocvars, latevars>>

\* a running device with a mounted medium and nothing pending
InitFlush ==
    fl = [phase |-> "run", now |-> 1, running |-> TRUE, state |-> "RUNNING",
          status |-> 0, pc |-> "loop", ongoing_io |-> FALSE,
          sub_request |-> FALSE, needs_sync |-> FALSE, last_client_rc |-> 0,
          tosync_array |-> <<>>, tosync_size |-> 0, oldest_tosync |-> 0,
          op_failed |-> FALSE, rc |-> 0, faults |-> 0, sync_calls |-> 0,
          ent |-> [e \in Rels |-> IdleRel],
          dss |-> [nb_obj |-> 0, logc_spc_used |-> 0, adm_failed |-> FALSE],
          flush |-> NoFlush, iter |-> NoIter]

SyncInit ==
    /\ InitDevIdle
    /\ InitLockIdle
    /\ InitSchedIdle
    /\ InitRelIdle
    /\ InitStatIdle
    /\ InitQueueIdle
    /\ InitWireIdle
    /\ InitAllocIdle
    /\ InitLateIdle
    /\ InitFlush

\* the steps of the device thread
NextSyncThread ==
    \/ fl_remove_canceled
    \/ fl_check_needs_sync
    \/ fl_stop_test
    \/ \E sync_ok \in BOOLEAN, df_ok \in BOOLEAN, dss_ok \in BOOLEAN :
          fl_dev_sync_locked(sync_ok, df_ok, dss_ok)
    \/ fl_dev_sync_clean
    \/ \E ok \in BOOLEAN : fl_handle(ok)
    \/ \E ok \in BOOLEAN : fl_wait(ok)
    \/ \E um_ok \in BOOLEAN : fl_thread_end(um_ok)
    \/ \E rel_ok \in BOOLEAN : fl_thread_end_device(rel_ok)

NextSync ==
    \/ NextSyncThread
    \/ fl_tick
    \/ \E e \in Rels, client_rc \in {0, -EIO}, written_size \in 1..MaxWritten :
          fl_release_check(e, client_rc, written_size)
    \/ \E e \in Rels : fl_push_new_sync_to_device(e)
    \/ fl_io_end
    \/ fl_sched_give
    \/ \E e \in Rels : fl_peer_error(e)
    \/ fl_stop

SpecSync == SyncInit /\ [][NextSync]_vars

\* the same, the device thread being scheduled as long as it runs, the clock
\* advancing, a received release being pushed and a client ending its I/O
LiveSync ==
    /\ SyncInit
    /\ [][NextSync]_vars
    /\ WF_vars(NextSyncThread)
    /\ WF_vars(fl_tick)
    /\ WF_vars(fl_io_end)
    /\ \A e \in Rels : WF_vars(fl_push_new_sync_to_device(e))

(* ---------------------------------------------------------------------- *)
(* C25                                                                    *)
(* ---------------------------------------------------------------------- *)

\* C25: the release entries a flush resolves are exactly those which were in
\* the pending list of the device when the flush ran the medium sync and the
\* update of the statistics, and the object count and the written size added
\* to the statistics of the medium are the count and the total size of the
\* entries resolved
C25_FlushResolvesWhatItSynced ==
    (fl.phase = "run" /\ fl.flush.cleaned)
        => /\ fl.flush.resolved = fl.flush.at_sync
           /\ (fl.flush.media_rc = 0 /\ fl.flush.dss_ok)
                => /\ fl.dss.nb_obj - fl.flush.nb_obj
                        = Cardinality(fl.flush.resolved)
                   /\ fl.dss.logc_spc_used - fl.flush.logc_spc_used
                        = SumWritten(fl, fl.flush.resolved)

(* ---------------------------------------------------------------------- *)
(* C26                                                                    *)
(* ---------------------------------------------------------------------- *)

\* C26: every release entry appended to the pending list of a device which is
\* release-ready (its thread is not STOPPED) is eventually resolved (its
\* status leaves TODO) and its request eventually has a response
C26_PushedReleaseIsResolved ==
    \A e \in Rels :
        (fl.phase = "run" /\ fl.ent[e].sub = "pushed"
            /\ fl.ent[e].ready_at_push)
          ~> (/\ fl.ent[e].status \in {"DONE", "ERROR", "CANCEL"}
              /\ fl.ent[e].ack + fl.ent[e].err >= 1)

(* ---------------------------------------------------------------------- *)
(* C27                                                                    *)
(* ---------------------------------------------------------------------- *)

\* what the iteration found under the mutex of the device calls for a flush
flush_is_due(it) ==
    \/ it.len >= sync_nb_req
    \/ it.past
    \/ it.size >= sync_wsize_kb
    \/ ((it.shutdown \/ it.stopping) /\ it.len >= 1)
    \/ it.client_err

\* C27: in an iteration of the loop which finds no I/O in flight, the flush is
\* performed when the pending releases are at least sync_nb_req, or the
\* oldest one is older than sync_time, or their written size is at least
\* sync_wsize, or the daemon is shutting down or the thread stopping with a
\* release pending, or the last client release carried an error
C27_FlushWhenDue ==
    (fl.phase = "run" /\ fl.iter.tested /\ ~fl.iter.io
        /\ flush_is_due(fl.iter))
      => (fl.pc = "sync" \/ fl.iter.flushed)

\* a flush was performed for the age of the only pending release, nothing
\* else calling for it
C27_Witness ==
    /\ fl.phase = "run"
    /\ fl.iter.tested
    /\ ~fl.iter.io
    /\ fl.iter.flushed
    /\ fl.flush.cleaned
    /\ fl.iter.past
    /\ fl.iter.len = 1
    /\ fl.iter.len < sync_nb_req
    /\ fl.iter.size < sync_wsize_kb
    /\ ~fl.iter.shutdown
    /\ ~fl.iter.stopping
    /\ ~fl.iter.client_err

(* ---------------------------------------------------------------------- *)
(* C28                                                                    *)
(* ---------------------------------------------------------------------- *)

\* the part of dev_sync under the mutex runs while the last client release
\* carried an error
flush_on_client_error ==
    /\ fl.phase = "run"
    /\ fl.pc = "sync"
    /\ fl.last_client_rc # 0
    /\ fl'.pc = "clean"

\* clean_tosync_array of a flush which ran on a client error
clean_on_client_error ==
    /\ fl.phase = "run"
    /\ fl.pc = "clean"
    /\ fl.flush.client_err
    /\ fl'.pc # "clean"

\* C28: a flush which runs while the last client release carried an error
\* does not call the medium sync and does not advance the object count and
\* the logical used size of the medium; the medium is set FAILED in the DSS
\* (when the DSS takes the update), the recorded client error is reset to 0,
\* every pending release is resolved with an error and none is acknowledged,
\* and the thread ends in error with the device FAILED
C28_ClientErrorFailsWithoutSync ==
    /\ [][flush_on_client_error
            => /\ fl'.sync_calls = fl.sync_calls
               /\ fl'.dss.nb_obj = fl.dss.nb_obj
               /\ fl'.dss.logc_spc_used = fl.dss.logc_spc_used
               /\ fl'.flush.dss_ok => fl'.dss.adm_failed
               /\ fl'.last_client_rc = 0
               /\ fl'.rc = fl.last_client_rc
          ]_vars
    /\ [][clean_on_client_error
            => /\ fl'.tosync_array = <<>>
               /\ \A e \in SeqToSet(fl.tosync_array) :
                     /\ fl'.ent[e].status = "ERROR"
                     /\ fl'.ent[e].ack = fl.ent[e].ack
                     /\ fl'.ent[e].rel_rc # 0
                     /\ fl'.ent[e].err = 1
               /\ fl'.status # 0
               /\ fl'.pc = "end"
          ]_vars
    /\ []((fl.phase = "run" /\ fl.flush.client_err /\ fl.flush.cleaned)
            => /\ fl.status # 0
               /\ fl.pc \in {"end", "end_device", "exited"}
               /\ fl.pc = "exited" => fl.op_failed)

\* the thread exited after a flush on a client error which resolved two
\* pending releases in error
C28_Witness ==
    /\ fl.phase = "run"
    /\ fl.pc = "exited"
    /\ fl.flush.client_err
    /\ fl.flush.cleaned
    /\ fl.flush.at_sync = Rels
    /\ \A e \in Rels : fl.ent[e].status = "ERROR" /\ fl.ent[e].ack = 0
    /\ \E e \in Rels : fl.ent[e].client_rc = 0
    /\ fl.sync_calls = 0
    /\ fl.dss.nb_obj = 0
    /\ fl.dss.adm_failed
    /\ fl.op_failed

(* ---------------------------------------------------------------------- *)
(* C29                                                                    *)
(* ---------------------------------------------------------------------- *)

\* in this step device d mounted medium m for the write r and found it
\* read-only: the medium is marked full in the DSS
write_finds_read_only(d, r, m) ==
    /\ dev[d].ld_sub_request = r
    /\ reqc[r].kind = "write"
    /\ dev'[d].ld_dss_media_info = m
    /\ ~dss.mfull[m]
    /\ dss'.mfull[m]

\* what the step leaves apart from the lock of the medium: the sub-request
\* is in the retry queue without medium and without response, the device is
\* not failed and its thread goes on
write_requeued_device_alive(d, r) ==
    /\ sched_retry_queue' = Append(sched_retry_queue, r)
    /\ reqc'[r].alloc_medium = NoMedium
    /\ reqc'[r].failure_on_medium
    /\ response_queue'[r] = response_queue[r]
    /\ dev'[d].ld_sub_request = NoReq
    /\ ~dev'[d].ld_ongoing_io
    /\ dev'[d].ld_op_status = "MOUNTED"
    /\ ~dss'.dfailed[d]
    /\ dev'[d].status = 0
    /\ dev'[d].pc = "loop"

load_will_be_refused(d, r, m) ==
    /\ dev[d].pc = "loop"
    /\ dev[d].ld_sub_request = r
    /\ reqc[r].rc = 0
    /\ reqc[r].alloc_medium = m
    /\ lib[m] \in Devices \ {d}
    /\ ~d2d_ok
    /\ dev[d].ld_op_status = "EMPTY"
    /\ ~dev[d].ld_ongoing_io
    /\ ~dev[d].ld_needs_sync
    /\ dev[d].ld_last_client_rc = 0
    /\ dev[d].tosync_array = <<>>

\* in this step the sub-request stays on the device with its medium: the
\* thread did not serve, fail or requeue it, which from the state above
\* happens when the thread does not run or when dev_load answers -EBUSY with
\* can_retry (a failure of wrap_lib_open or of the lookup ends the sub-request)
sub_request_kept(d, r, m) ==
    /\ dev'[d].ld_sub_request = r
    /\ reqc'[r].alloc_medium = m

\* C30: when dev_load is refused for a move from drive to drive, the handler
\* leaves the sub-request on the device as it was, queues no response for it,
\* puts it on no queue of the scheduler, does not fail the medium and does not
\* fail the device; the thread stays in its loop, where it tries again
C30_RefusedLoadChangesNothing ==
    [][\A d \in Devices, r \in ReqIds, m \in Media :
          (load_will_be_refused(d, r, m) /\ sub_request_kept(d, r, m))
            => /\ reqc'[r] = reqc[r]
               /\ response_queue'[r] = response_queue[r]
               /\ r \notin SeqToSet(sched_retry_queue')
               /\ r \notin SeqToSet(sched_req_queue')
               /\ dss'.mfailed[m] = dss.mfailed[m]
               /\ dss'.mlock[m] = dss.mlock[m]
               /\ lib'[m] = lib[m]
               /\ dev'[d].ld_op_status = "EMPTY"
               /\ dev'[d].pc = "loop"
      ]_vars
(* ---------------------------------------------------------------------- *)
(* Format requests and the queues of the scheduler: SpecFormat            *)
(* ---------------------------------------------------------------------- *)

\* number of calls that fail in one run of the format scenario
MaxFormatFaults == 1

\* the scheduler receives request r and pushes it on its incoming queue; the
\* requests arrive in the order of their ids
sched_receive(r) ==
    /\ running
    /\ reqc[r].loc = "new"
    /\ \A q \in ReqIds : q < r => reqc[q].loc # "new"
    /\ \E kind \in {"format", "read", "write"}, m \in Media :
        /\ kind # "format" => m = "m1"
        /\ Becomes([cur EXCEPT
             !.reqc[r].kind = kind,
             !.reqc[r].med_id = IF kind = "format" THEN m ELSE NoMedium,
             !.reqc[r].loc = "incoming",
             !.incoming = Append(@, r)])
    /\ UNCHANGED <<running, d2d_ok, lockvars, schedvars, auxvars>>

\* the medium of a format request can be given to device d: the request still
\* holds it, or it is free, or it is loaded in d
format_medium_usable(s, d, r) ==
    LET m == s.reqc[r].med_id
    IN  \/ s.reqc[r].alloc_medium = m
        \/ medium_is_free(s, m, "format")
        \/ (s.dev[d].ld_op_status = "LOADED" /\ s.dev[d].ld_dss_media_info = m)

\* the scheduler serves the head of its incoming queue once its retry queue is
\* empty
sched_serve_incoming(d) ==
    /\ running
    /\ Len(sched_retry_queue) = 0
    /\ Len(sched_req_queue) > 0
    /\ dev_is_sched_ready(cur, d)
    /\ LET r == Head(sched_req_queue)
           s1 == [cur EXCEPT !.incoming = Tail(@)]
       IN  IF reqc[r].kind = "format"
           THEN /\ format_medium_usable(cur, d, r)
                /\ Becomes(sched_give(s1, d, r, reqc[r].med_id))
           ELSE \E m \in Media \cup {NoMedium} :
                  /\ IF m = NoMedium
                     THEN own_medium_usable(cur, d, reqc[r].kind)
                     ELSE medium_is_free(cur, m, reqc[r].kind)
                  /\ Becomes(sched_give(s1, d, r, m))
    /\ UNCHANGED <<running, d2d_ok, lockvars, schedvars, auxvars>>

\* two devices, the first one empty or holding the second medium
FormatInit ==
    /\ \E held \in {{}, {<<"d1", "m2">>}} :
         InitDevicesHolding({"d1", "d2"}, {"m1", "m2"}, ReqIds,
                            MaxFormatFaults, held)
    /\ InitLockIdle
    /\ InitSchedIdle
    /\ InitAuxIdle

NextFormat ==
    \/ \E d \in Devices : lrs_dev_thread(d)
    \/ \E d \in Devices : dev_thread_end(d)
    \/ \E d \in Devices : dev_thread_exit(d)
    \/ \E r \in ReqIds : sched_receive(r)
    \/ \E d \in Devices : sched_serve_incoming(d)
    \/ \E d \in Devices : DispatchRetry(d)
    \/ \E r \in ReqIds : ClientRelease(r)

SpecFormat == FormatInit /\ [][NextFormat]_vars

\* device d handles the format sub-request of r in this step and the format
\* fails: the sub-request leaves the device without a format response
format_handling_fails(d, r) ==
    /\ dev[d].pc = "loop"
    /\ dev[d].ld_sub_request = r
    /\ reqc[r].kind = "format"
    /\ dev'[d].ld_sub_request = NoReq
    /\ response_queue'[r].format = response_queue[r].format

\* C31: handling a format sub-request that fails always queues exactly one
\* error response for it, whatever failed: emptying the drive, opening the
\* library, the lookup or the move of the medium, or the format itself
C31_FailedFormatQueuesOneErrorResponse ==
    [][\A d \in Devices, r \in ReqIds :
          format_handling_fails(d, r)
            => response_queue'[r].err = response_queue[r].err + 1
      ]_vars

\* the worker of d ends in this step while r is its pending sub-request
ends_with_pending(d, r) ==
    /\ dev[d].pc = "end"
    /\ dev'[d].pc = "end_device"
    /\ dev[d].ld_sub_request = r

\* the pending sub-request is not lost: one error response, or back on a queue
\* of the scheduler
pending_answered_or_requeued(r) ==
    \/ /\ response_queue'[r].err = response_queue[r].err + 1
       /\ r \notin SeqToSet(sched_req_queue') \cup SeqToSet(sched_retry_queue')
    \/ /\ response_queue'[r] = response_queue[r]
       /\ r \in SeqToSet(sched_req_queue') \cup SeqToSet(sched_retry_queue')

\* a format request that goes back to the scheduler no longer holds the DSS
\* lock of a medium that was not transferred to the device
format_requeued_unlocked(r) ==
    (/\ reqc[r].kind = "format"
     /\ reqc[r].alloc_medium # NoMedium
     /\ r \in SeqToSet(sched_req_queue'))
        => ~dss'.mlock[reqc[r].alloc_medium]

\* what holds of the sub-request pending at the end of a worker, whatever its
\* kind
pending_not_lost ==
    [][\A d \in Devices, r \in ReqIds :
          ends_with_pending(d, r)
            => pending_answered_or_requeued(r) /\ format_requeued_unlocked(r)
      ]_vars

\* C32: a sub-request pending when its worker ends is answered by one error
\* response or goes back to the scheduler, a format medium not transferred to
\* the device being unlocked first; and a read or write sub-request does not
\* take the way of a format request, which is the incoming queue of the
\* scheduler with the request read through params.format
C32_PendingSubRequestAtEndHandledByKind ==
    [][\A d \in Devices, r \in ReqIds :
          ends_with_pending(d, r)
            => /\ pending_answered_or_requeued(r)
               /\ format_requeued_unlocked(r)
               /\ reqc[r].kind \in {"read", "write"}
                    => r \notin SeqToSet(sched_req_queue')
      ]_vars

(* ---------------------------------------------------------------------- *)
(* The pending sub-request over the iterations of a worker: SpecCancel    *)
(* ---------------------------------------------------------------------- *)

cancel_applies_whatever_the_kind(a) == rwalloc_has_error(a)

\* cancel_subrequest_on_error: a format request is never cancelled, a read or
\* write sub-request is when its request has an error
cancel_applies(a) == a.kind # "format" /\ rwalloc_has_error(a)

\* lrs_dev_thread at the head of its loop, with the sub-request of d pending:
\* cancel_subrequest_on_error discards it, under the mutex of the request, or
\* the iteration goes on to the handler of the sub-request
al_loop_head(d) ==
    /\ al.phase = "run"
    /\ al.w[d].pc = "idle"
    /\ al.at[d] = "dev"
    /\ al' = IF cancel_applies(al)
             THEN [locked_cancel_rwalloc_on_error(al, d) EXCEPT
                     !.w[d].pc = "cancel_end",
                     !.read_freed = @ \/ al.freed]
             ELSE [al EXCEPT !.w[d].pc = "handle"]
    /\ UNCHANGED <<devvars, lockvars, schedvars, oldauxvars, flushvars, latevars>>

\* dev_handle_read_write at its entry: cancel_subrequest_on_error again, then
\* the load and the mount of the medium
al_handle_read_write(d) ==
    /\ al.phase = "run"
    /\ al.w[d].pc = "handle"
    /\ al.kind # "format"
    /\ al' = IF cancel_applies(al)
             THEN [locked_cancel_rwalloc_on_error(al, d) EXCEPT
                     !.w[d].pc = "cancel_end",
                     !.read_freed = @ \/ al.freed]
             ELSE [al EXCEPT !.w[d].pc = "work", !.w[d].did = "work"]
    /\ UNCHANGED <<devvars, lockvars, schedvars, oldauxvars, flushvars, latevars>>

\* the end of dev_handle_read_write: handle_rwalloc_sub_request_result under
\* the mutex of the request
al_work_result(d, sub_request_rc, failure_on_medium, fill_ok) ==
    /\ al.phase = "run"
    /\ al.w[d].pc = "work"
    /\ LET a == rwalloc_sub_request_result(al, d, sub_request_rc,
                                           failure_on_medium, fill_ok)
       IN  al' = [a EXCEPT !.w[d].pc = "result_end",
                           !.read_freed = @ \/ al.freed]
    /\ UNCHANGED <<devvars, lockvars, schedvars, oldauxvars, flushvars, latevars>>

\* dev_handle_format: the format is done or fails, and is answered
al_handle_format(d, ok) ==
    /\ al.phase = "run"
    /\ al.w[d].pc = "handle"
    /\ al.kind = "format"
    /\ al' = [al EXCEPT
                !.media[d] = IF ok THEN "DONE" ELSE "ERROR",
                !.at[d] = "gone",
                !.respc = IF ok THEN @ + 1 ELSE @,
                !.err = IF ok THEN @ ELSE @ + 1,
                !.w[d] = [IdleAllocWorker EXCEPT !.did = "format"]]
    /\ UNCHANGED <<devvars, lockvars, schedvars, oldauxvars, flushvars, latevars>>

\* a read or write allocation over several devices, or a format request on one
\* device; the storage read as params.rwalloc.rc holds anything for a format
\* request, whose params are those of a format
InitCancel ==
    \E kind \in {"read", "write", "format"}, alt \in BOOLEAN,
       on \in (SUBSET Devices) \ {{}}, stored \in {0, -EIO} :
        /\ kind # "read" => ~alt
        /\ kind = "format" => Cardinality(on) = 1
        /\ kind # "format" => stored = 0
        /\ al = [phase |-> "run", kind |-> kind, alt |-> alt, rc |-> stored,
                 media |-> [d \in Devices |->
                              IF d \in on THEN "TODO" ELSE "NONE"],
                 at |-> [d \in Devices |->
                           IF d \in on THEN "dev" ELSE "none"],
                 respc |-> 0, err |-> 0,
                 freed |-> FALSE, frees |-> 0, read_freed |-> FALSE,
                 w |-> [d \in Devices |-> IdleAllocWorker]]

CancelInit ==
    /\ InitDevIdle
    /\ InitLockIdle
    /\ InitSchedIdle
    /\ InitRelIdle
    /\ InitStatIdle
    /\ InitQueueIdle
    /\ InitWireIdle
    /\ InitFlushIdle
    /\ InitLateIdle
    /\ InitCancel

NextCancel ==
    \/ \E d \in Devices : al_loop_head(d)
    \/ \E d \in Devices : al_handle_read_write(d)
    \/ \E d \in Devices, sub_request_rc \in {0, -EIO},
          failure_on_medium \in BOOLEAN, fill_ok \in BOOLEAN :
            al_work_result(d, sub_request_rc, failure_on_medium, fill_ok)
    \/ \E d \in Devices, ok \in BOOLEAN : al_handle_format(d, ok)
    \/ \E d \in Devices : al_result_end(d)
    \/ \E d \in Devices : al_cancel_end(d)
    \/ \E d \in Devices : al_retry(d)

SpecCancel == CancelInit /\ [][NextCancel]_vars

\* the worker of d is at the head of its loop with a pending read or write
\* sub-request whose request has a recorded error
pending_of_failed_request(d) ==
    /\ al.phase = "run"
    /\ al.kind # "format"
    /\ al.rc # 0
    /\ al.at[d] = "dev"
    /\ al.w[d].pc = "idle"

\* C33: the next iteration of a worker whose pending read or write sub-request
\* belongs to a request with a recorded error discards it: its medium gets the
\* status CANCEL, the sub-request leaves the device, no load or mount is done
\* for it and no response is queued; a format sub-request is never cancelled
C33_PendingSubRequestOfFailedRequestDiscarded ==
    /\ [](al.phase = "run" /\ al.kind = "format"
            => \A d \in Devices : al.media[d] # "CANCEL")
    /\ [][\A d \in Devices :
            (pending_of_failed_request(d) /\ al'.w[d] # al.w[d])
              => /\ al'.media[d] = "CANCEL"
                 /\ al'.at[d] = "gone"
                 /\ al'.w[d].did = "cancel"
                 /\ al'.w[d].pc = "cancel_end"
                 /\ al'.respc = al.respc
                 /\ al'.err = al.err
                 /\ al'.rc = al.rc
         ]_vars

\* a sub-request was discarded at the head of the loop after a fatal failure on
\* another device
C33_Witness ==
    /\ al.phase = "run"
    /\ al.kind # "format"
    /\ al.rc # 0
    /\ \E d, e \in Devices :
        /\ d # e
        /\ al.w[e].did = "fatal"
        /\ al.w[d].did = "cancel"
        /\ al.w[d].pc = "cancel_end"
        /\ al.media[d] = "CANCEL"
        /\ al.at[d] = "gone"

(* ---------------------------------------------------------------------- *)
(* C34                                                                    *)
(* ---------------------------------------------------------------------- *)

\* the worker of d, which ends without error, deals in this step with its
\* medium (dev_thread_end up to dev_thread_end_loaded_medium)
ends_medium_without_error(d) ==
    /\ dev[d].pc = "end"
    /\ dev[d].status = 0
    /\ dev'[d].pc = "end_device"

\* the worker of d deals in this step with its device
\* (dev_thread_end_device) and exits
ends_device(d) ==
    /\ dev[d].pc = "end_device"
    /\ dev'[d].pc = "exited"

\* C34: a worker that ends without error umounts its medium if it is mounted,
\* leaves it loaded in the drive and releases its DSS lock while the device
\* lock is still held; the device lock is released by the next step, when
\* nothing failed; when a step failed the device lock is released only with
\* the device FAILED in the DSS
C34_EndReleasesMediumThenDevice ==
    [][\A d \in Devices :
          /\ ends_medium_without_error(d)
               => LET m == dev[d].ld_dss_media_info
                  IN  /\ dss'.dlock[d] = dss.dlock[d]
                      /\ dss'.dfailed[d] = dss.dfailed[d]
                      /\ (dev'[d].status = 0
                          /\ dev[d].ld_op_status \in {"MOUNTED", "LOADED"})
                           => /\ dev'[d].ld_op_status = "LOADED"
                              /\ ~dev'[d].ld_mnt_path
                              /\ lib'[m] = d
                              /\ ~dss'.mlock[m]
                              /\ dss'.mfailed[m] = dss.mfailed[m]
          /\ ends_device(d)
               => /\ dev'[d].status = 0
                    => /\ dss.dlock[d] /\ ~dss'.dlock[d]
                       /\ dss'.dfailed[d] = dss.dfailed[d]
                  /\ dev'[d].status # 0
                    => (~dss'.dlock[d] => dss'.dfailed[d])
                  /\ dss'.mlock = dss.mlock
      ]_vars

\* a worker that had a medium mounted has exited without error: the medium is
\* in the drive, unlocked, and the device is unlocked
C34_Witness ==
    \E d \in Devices, m \in Media :
        /\ dev[d].pc = "exited"
        /\ dev[d].status = 0
        /\ dev[d].ld_op_status = "LOADED"
        /\ lib[m] = d
        /\ hist.umounted # {}
        /\ ~dss.mlock[m]
        /\ ~dss.dlock[d]
        /\ ~dss.dfailed[d]

(* ---------------------------------------------------------------------- *)
(* C35                                                                    *)
(* ---------------------------------------------------------------------- *)

\* request r was given to a device, which handed it back: it waits for the
\* scheduler again
handed_back(r) ==
    /\ hist.attempts[r] > 0
    /\ r \in SeqToSet(sched_retry_queue) \cup SeqToSet(sched_req_queue)

\* the scheduler gives a device a sub-request of r in this step
dispatched(r) == hist'.attempts[r] = hist.attempts[r] + 1

\* C35: what a worker hands back to the scheduler is in the retry queue, and
\* is given to a device again before any request that arrived after it (the
\* requests arrive in the order of their ids)
C35_HandedBackWorkServedFirst ==
    [][\A r1, r2 \in ReqIds :
          (r1 < r2 /\ handed_back(r1) /\ dispatched(r2))
            => FALSE
      ]_vars

\* ---------------------------------------------------------------------
\* SpecScsiRetry: PHO_RETRY_LOOP around a SCSI call, with scsi_retry_func
\* ---------------------------------------------------------------------

\* largest configured [scsi] retry_count of the model
MaxRetryCount == 3

\* largest configured [scsi] retry_short / retry_long delay, in seconds
MaxRetryDelay == 1

\* enum scsi_operation_type of struct scsi_error, as scsi_retry_func reads it
ScsiStatuses ==
    {"SCSI_SUCCESS", "SCSI_RETRY_SHORT", "SCSI_RETRY_LONG", "SCSI_FATAL_ERROR"}

ScsiRetriable == {"SCSI_RETRY_SHORT", "SCSI_RETRY_LONG"}

\* scsi_retry_func with the test of the credit made before the credit is
\* decremented: one call too many
scsi_retry_func_tests_before_decrement(retry_cnt, status, short, long) ==
    IF retry_cnt < 0
    THEN [retry_cnt |-> retry_cnt, delay |-> 0]
    ELSE CASE status \in {"SCSI_FATAL_ERROR", "SCSI_SUCCESS"} ->
                [retry_cnt |-> -1, delay |-> 0]
           [] status = "SCSI_RETRY_SHORT" ->
                [retry_cnt |-> retry_cnt - 1, delay |-> short]
           [] status = "SCSI_RETRY_LONG" ->
                [retry_cnt |-> retry_cnt - 1, delay |-> long]

\* scsi_retry_func(fnname, rc, &retry_cnt, err): the credit left and the
\* number of seconds slept
scsi_retry_func(retry_cnt, status, short, long) ==
    LET cnt == retry_cnt - 1
    IN IF cnt < 0
       THEN [retry_cnt |-> cnt, delay |-> 0]
       ELSE CASE status \in {"SCSI_FATAL_ERROR", "SCSI_SUCCESS"} ->
                   [retry_cnt |-> -1, delay |-> 0]
              [] status = "SCSI_RETRY_SHORT" ->
                   [retry_cnt |-> cnt, delay |-> short]
              [] status = "SCSI_RETRY_LONG" ->
                   [retry_cnt |-> cnt, delay |-> long]

\* PHO_RETRY_LOOP: int retry = (_retry_cnt); before the first call
InitRetry ==
    \E n \in 0..MaxRetryCount, short, long \in 0..MaxRetryDelay :
        rt = [phase |-> "call", retry_count |-> n, retry |-> n,
              short |-> short, long |-> long,
              seen |-> <<>>, slept |-> 0, due |-> 0]

\* (_rc) = (_call_func)((_udata), ...): the call, which classifies its
\* outcome in err->status
rt_call ==
    /\ rt.phase = "call"
    /\ \E status \in ScsiStatuses :
         rt' = [rt EXCEPT !.phase = "func", !.seen = Append(@, status)]
    /\ UNCHANGED <<devvars, lockvars, schedvars, oldauxvars, allocvars,
                   flushvars, wk, hd>>

\* (_retry_func)(#_call_func, (_rc), &retry, (_udata)); while (retry >= 0)
rt_retry_func ==
    /\ rt.phase = "func"
    /\ LET status == rt.seen[Len(rt.seen)]
           out == scsi_retry_func(rt.retry, status, rt.short, rt.long)
       IN rt' = [rt EXCEPT
                   !.retry = out.retry_cnt,
                   !.slept = @ + out.delay,
                   !.due = @ + (IF out.retry_cnt >= 0
                                THEN (IF status = "SCSI_RETRY_SHORT"
                                      THEN rt.short ELSE rt.long)
                                ELSE 0),
                   !.phase = IF out.retry_cnt >= 0 THEN "call" ELSE "done"]
    /\ UNCHANGED <<devvars, lockvars, schedvars, oldauxvars, allocvars,
                   flushvars, wk, hd>>

ScsiRetryInit ==
    /\ InitDevIdle
    /\ InitLockIdle
    /\ InitSchedIdle
    /\ InitRelIdle
    /\ InitStatIdle
    /\ InitQueueIdle
    /\ InitWireIdle
    /\ InitAllocIdle
    /\ InitFlushIdle
    /\ InitWakeupIdle
    /\ InitHandleIdle
    /\ InitRetry

NextScsiRetry ==
    \/ rt_call
    \/ rt_retry_func

\* the calling thread keeps running: the call returns and the sleep ends
SpecScsiRetry ==
    ScsiRetryInit /\ [][NextScsiRetry]_vars /\ WF_vars(NextScsiRetry)

\* number of calls made so far
rt_calls == Len(rt.seen)

\* every call but the last one was classified as retriable
only_last_call_decides ==
    \A i \in 1..(rt_calls - 1) : rt.seen[i] \in ScsiRetriable

\* the bounds on the number of calls, and when another call is made
retry_loop_bounds ==
    /\ rt_calls <= rt.retry_count + 1
    /\ rt.phase = "done" => rt_calls >= 1
    /\ only_last_call_decides
    /\ (rt.phase = "call" /\ rt_calls > 0) =>
         /\ rt.seen[rt_calls] \in ScsiRetriable
         /\ rt_calls <= rt.retry_count
    /\ (rt.phase = "done" /\ rt.seen[rt_calls] \in ScsiRetriable) =>
         rt_calls = rt.retry_count + 1
    /\ rt.phase \in {"call", "done"} => rt.slept = rt.due

\* C36: the retry loop around a SCSI call ends; the call is made at least
\* once and at most retry_count + 1 times, the loop is left right after the
\* first call classified SUCCESS or FATAL, and after a call classified
\* RETRY_SHORT or RETRY_LONG it sleeps the configured delay and calls
\* again only while the credit is not used up.
C36_RetryLoopTerminatesWithinCredit ==
    /\ [](rt.phase # "off" => retry_loop_bounds)
    /\ <>(rt.phase = "done")

\* the whole credit was used by retriable calls, with a sleep between them
C36_Witness ==
    /\ rt.phase = "done"
    /\ rt.retry_count = MaxRetryCount
    /\ rt_calls = MaxRetryCount + 1
    /\ rt.seen[rt_calls] \in ScsiRetriable
    /\ rt.slept > 0

\* ---------------------------------------------------------------------
\* SpecWakeup: compute_wakeup_date, with times in milliseconds
\* ---------------------------------------------------------------------

\* latest reading of CLOCK_REALTIME, in ms
MaxNowMs == 25

\* largest configured sync_time_ms of the handle, in ms
MaxSyncTimeMs == 15

\* static const struct timespec MINSLEEP, in ms
MINSLEEP == 10

\* add_timespec(a, b)
add_timespec(a, b) == a + b

\* diff_timespec(a, b): a - b, normalised
diff_timespec(a, b) == a - b

\* cmp_timespec(a, b)
cmp_timespec(a, b) == IF a < b THEN -1 ELSE IF a > b THEN 1 ELSE 0

\* compute_wakeup_date(dev, &date), once clock_gettime has given now
compute_wakeup_date(now, oldest_tosync, sync_time) ==
    IF oldest_tosync = 0
    THEN add_timespec(now, sync_time)
    ELSE LET date == add_timespec(oldest_tosync, sync_time)
             diff == diff_timespec(date, now)
         IN IF cmp_timespec(diff, MINSLEEP) = -1
            THEN add_timespec(MINSLEEP, now)
            ELSE date

\* a device with no release pending (oldest_tosync zero) or whose oldest
\* pending release arrived at some time up to now
InitWakeup ==
    \E now \in 1..MaxNowMs, sync_time \in 0..MaxSyncTimeMs :
      \E oldest \in 0..now :
        wk = [phase |-> "wait", now |-> now, oldest_tosync |-> oldest,
              sync_time_ms |-> sync_time, date |-> 0]

\* wait_for_signal: rc = compute_wakeup_date(dev, &time)
wk_compute_wakeup_date ==
    /\ wk.phase = "wait"
    /\ wk' = [wk EXCEPT
                !.phase = "timedwait",
                !.date = compute_wakeup_date(wk.now, wk.oldest_tosync,
                                             wk.sync_time_ms)]
    /\ UNCHANGED <<devvars, lockvars, schedvars, oldauxvars, allocvars,
                   flushvars, rt, hd>>

\* clock_gettime fails: wait_for_signal returns without waiting
wk_clock_gettime_fails ==
    /\ wk.phase = "wait"
    /\ wk' = [wk EXCEPT !.phase = "error"]
    /\ UNCHANGED <<devvars, lockvars, schedvars, oldauxvars, allocvars,
                   flushvars, rt, hd>>

WakeupInit ==
    /\ InitDevIdle
    /\ InitLockIdle
    /\ InitSchedIdle
    /\ InitRelIdle
    /\ InitStatIdle
    /\ InitQueueIdle
    /\ InitWireIdle
    /\ InitAllocIdle
    /\ InitFlushIdle
    /\ InitRetryIdle
    /\ InitHandleIdle
    /\ InitWakeup

NextWakeup ==
    \/ wk_compute_wakeup_date
    \/ wk_clock_gettime_fails

SpecWakeup == WakeupInit /\ [][NextWakeup]_vars

max_timespec(a, b) == IF a > b THEN a ELSE b

\* with a release pending the deadline is the later of now + 10 ms and
\* oldest_tosync + sync_time
wakeup_date_with_pending_release ==
    (wk.phase = "timedwait" /\ wk.oldest_tosync # 0) =>
        wk.date = max_timespec(wk.now + MINSLEEP,
                               wk.oldest_tosync + wk.sync_time_ms)

\* without a release pending the deadline is now + sync_time
wakeup_date_without_release ==
    (wk.phase = "timedwait" /\ wk.oldest_tosync = 0) =>
        wk.date = wk.now + wk.sync_time_ms

\* C37: the wake-up deadline computed before waiting equals
\* max(now + 10 ms, oldest_tosync + sync_time) and is never earlier than
\* now + 10 ms, whatever the configured sync_time and whether or not a
\* release is pending.
C37_WakeupDateHasFloor ==
    wk.phase = "timedwait" =>
        /\ wk.date = max_timespec(wk.now + MINSLEEP,
                                  wk.oldest_tosync + wk.sync_time_ms)
        /\ wk.date >= wk.now + MINSLEEP

\* ---------------------------------------------------------------------
\* SpecHandle: the device list of a lrs_dev_hdl (load, add, del, clear)
\* ---------------------------------------------------------------------

\* number of lrs_dev_hdl_add calls after the load
MaxAdds == 2

Range(q) == {q[i] : i \in 1..Len(q)}

\* the lists dss_get_usable_devices can return: devices without repetition
DevLists ==
    {q \in UNION {[1..n -> Devices] : n \in 0..Cardinality(Devices)} :
        \A i, j \in 1..Len(q) : i # j => q[i] # q[j]}

\* g_ptr_array_remove_index_fast(array, index): the last element takes the
\* place of the removed one
g_ptr_array_remove_index_fast(array, index) ==
    LET n == Len(array)
    IN [i \in 1..(n - 1) |-> IF i = index + 1 THEN array[n] ELSE array[i]]

\* lrs_dev_init_from_info, when nothing fails: the worker is created
\* (dev_thread_init) and the device appended to ldh_devices
lrs_dev_init_from_info(h, name) ==
    [h EXCEPT !.ldh_devices = Append(@, name),
              !.threads = @ \cup {name}]

\* lrs_dev_hdl_del(handle, index, rc): -ERANGE when index is not in the
\* list, else the device is removed and its worker stopped and joined
lrs_dev_hdl_del(h, index) ==
    IF index >= Len(h.ldh_devices)
    THEN h
    ELSE [h EXCEPT
            !.ldh_devices = g_ptr_array_remove_index_fast(@, index),
            !.threads = @ \ {h.ldh_devices[index + 1]}]

\* a handle after lrs_dev_hdl_init, about to load the devices of the DSS
InitHandle ==
    \E q \in DevLists :
        hd = [phase |-> "load", dev_list |-> q, ldh_devices |-> <<>>,
              threads |-> {}, adds |-> 0,
              last |-> [op |-> "none", name |-> "none", rc |-> 0,
                        created |-> FALSE, before |-> <<>>]]

\* lrs_dev_hdl_load: one turn of the loop over dev_list
hd_load_one ==
    /\ hd.phase = "load"
    /\ hd.dev_list # <<>>
    /\ \E init_ok, lock_ok \in BOOLEAN :
         LET name == Head(hd.dev_list)
             h0 == [hd EXCEPT !.dev_list = Tail(@)]
             h1 == lrs_dev_init_from_info(h0, name)
             h2 == IF ~init_ok THEN h0
                   ELSE IF ~lock_ok
                        THEN lrs_dev_hdl_del(h1, Len(h1.ldh_devices) - 1)
                        ELSE h1
         IN hd' = [h2 EXCEPT
                     !.last = [op |-> "load", name |-> name,
                               rc |-> IF init_ok /\ lock_ok THEN 0 ELSE -1,
                               created |-> init_ok,
                               before |-> hd.ldh_devices]]
    /\ UNCHANGED <<devvars, lockvars, schedvars, oldauxvars, allocvars,
                   flushvars, rt, wk>>

\* lrs_dev_hdl_load: the end of the loop
hd_load_end ==
    /\ hd.phase = "load"
    /\ hd.dev_list = <<>>
    /\ hd' = [hd EXCEPT !.phase = "run"]
    /\ UNCHANGED <<devvars, lockvars, schedvars, oldauxvars, allocvars,
                   flushvars, rt, wk>>

\* lrs_dev_hdl_add(sched, handle, name), for a device not yet in the list
hd_add ==
    /\ hd.phase = "run"
    /\ hd.adds < MaxAdds
    /\ \E name \in Devices \ Range(hd.ldh_devices) :
       \E found, init_ok, lock_ok \in BOOLEAN :
         LET h0 == [hd EXCEPT !.adds = @ + 1]
             h1 == lrs_dev_init_from_info(h0, name)
             created == found /\ init_ok
             h2 == IF ~created THEN h0
                   ELSE IF ~lock_ok
                        THEN lrs_dev_hdl_del(h1, Len(h1.ldh_devices))
                        ELSE h1
         IN hd' = [h2 EXCEPT
                     !.last = [op |-> "add", name |-> name,
                               rc |-> IF created /\ lock_ok THEN 0 ELSE -1,
                               created |-> created,
                               before |-> hd.ldh_devices]]
    /\ UNCHANGED <<devvars, lockvars, schedvars, oldauxvars, allocvars,
                   flushvars, rt, wk>>

\* lrs_dev_hdl_del(handle, index, rc) on a device of the list
hd_del ==
    /\ hd.phase = "run"
    /\ \E index \in 0..(Len(hd.ldh_devices) - 1) :
         hd' = [lrs_dev_hdl_del(hd, index) EXCEPT
                  !.last = [op |-> "del", name |-> hd.ldh_devices[index + 1],
                            rc |-> 0, created |-> FALSE,
                            before |-> hd.ldh_devices]]
    /\ UNCHANGED <<devvars, lockvars, schedvars, oldauxvars, allocvars,
                   flushvars, rt, wk>>

\* lrs_dev_hdl_clear: every worker of the list is stopped and joined
hd_clear ==
    /\ hd.phase = "run"
    /\ hd' = [hd EXCEPT
                !.phase = "cleared",
                !.threads = @ \ Range(hd.ldh_devices),
                !.ldh_devices = <<>>,
                !.last = [op |-> "clear", name |-> "none", rc |-> 0,
                          created |-> FALSE, before |-> hd.ldh_devices]]
    /\ UNCHANGED <<devvars, lockvars, schedvars, oldauxvars, allocvars,
                   flushvars, rt, wk>>

HandleInit ==
    /\ InitDevIdle
    /\ InitLockIdle
    /\ InitSchedIdle
    /\ InitRelIdle
    /\ InitStatIdle
    /\ InitQueueIdle
    /\ InitWireIdle
    /\ InitAllocIdle
    /\ InitFlushIdle
    /\ InitRetryIdle
    /\ InitWakeupIdle
    /\ InitHandle

NextHandle ==
    \/ hd_load_one
    \/ hd_load_end
    \/ hd_add
    \/ hd_del
    \/ hd_clear

SpecHandle == HandleInit /\ [][NextHandle]_vars

\* the device could not be locked after its worker was created
add_failed_after_worker(op) ==
    /\ hd.last.op = op
    /\ hd.last.created
    /\ hd.last.rc # 0

\* the list is what it was and the worker of the device is gone
add_undone ==
    /\ hd.ldh_devices = hd.last.before
    /\ hd.last.name \notin hd.threads

\* a failed turn of the bulk load leaves the list as it was
failed_load_undone == add_failed_after_worker("load") => add_undone

\* C38: when adding a device fails after its worker was created, the
\* device is removed from the list and its worker stopped and joined: the
\* list holds exactly the devices it held before, for a single add and for
\* the bulk load at startup.
C38_FailedAddIsUndone ==
    (add_failed_after_worker("add") \/ add_failed_after_worker("load"))
        => add_undone

(* ---------------------------------------------------------------------- *)
(* C39                                                                    *)
(* ---------------------------------------------------------------------- *)

\* the arrival times of the releases in the pending-sync list
pending_arrivals == {fl.ent[e].received_at : e \in SeqToSet(fl.tosync_array)}

\* C39: between two critical sections of the device mutex, oldest_tosync
\* is the earliest arrival time among the releases of the pending-sync
\* list, and zero exactly when the list is empty.
C39_OldestTosyncIsEarliestPending ==
    fl.phase = "run" =>
        /\ (fl.oldest_tosync = 0) <=> (fl.tosync_array = <<>>)
        /\ fl.tosync_array # <<>> =>
             /\ fl.oldest_tosync \in pending_arrivals
             /\ \A t \in pending_arrivals : fl.oldest_tosync <= t

(* ---------------------------------------------------------------------- *)
(* C40                                                                    *)
(* ---------------------------------------------------------------------- *)

\* C40: the device thread makes no blocking library, filesystem or DSS call
\* (medium sync, df, DSS update, mount, umount, move) while it holds the
\* mutex of its device: no critical section of ld_mutex contains one.
C40_NoBlockingCallUnderDeviceMutex ==
    fl.phase = "run" => fl.flush.under_mutex = {}
====
